---------------------------- MODULE Spec2Model ----------------------------
(***************************************************************************)
(* A model of the chat server of chat-app-rs.                              *)
(*                                                                         *)
(* Part 1: server/handler.rs, the WebSocket admission and session code:    *)
(*   websocket_handler (duplicate check and registration under the         *)
(*   connected_clients mutex), handle_socket (room-connected,              *)
(*   participant-joined, the recv_task / send_task pair, select/abort and  *)
(*   the cleanup with participant-left).                                   *)
(* Part 2: infrastructure/repository/inmemory/room.rs, the repository that *)
(*   keeps connected_clients and the Room aggregate behind two mutexes.    *)
(* Part 3: domain/value_object.rs, the validation of ClientId and of       *)
(*   MessageContent.                                                       *)
(* Part 4: client/session.rs, the session of the command-line client.      *)
(***************************************************************************)
EXTENDS Naturals, Integers, Sequences, FiniteSets, TLC

(***************************************************************************)
(* Bounds of the model.                                                    *)
(***************************************************************************)
\* connection attempts (calls of websocket_handler) in one behaviour
MaxSessions == 3
\* text frames received over all connections in one behaviour
MaxFrames == 1
\* further connection attempts in a behaviour where no connection ends
MoreSessions == 1
\* client processes started in one behaviour
MaxClients == 3

\* The identities clients connect with, in the order the model first uses
\* them: identities are interchangeable, so a behaviour that first uses
\* "bob" is the same as one that first uses "alice" up to renaming.  The
\* second one is the empty string: query.client_id is any string, and
\* websocket_handler only ever compares it with the keys of the registry.
IdOrder == <<"alice", "", "bob", "carol">>
\* client_id of a call that has none (not yet made, or cleaned up)
NoClientId == "(none)"
Ids == {IdOrder[i] : i \in 1..Len(IdOrder)}
Sessions == 1..(MaxSessions + MoreSessions)

\* calls of the repository's operations in one behaviour
MaxCalls == 4
\* tasks that call the repository concurrently
MaxTasks == 2
\* the Room's ceiling of participants and of messages
ParticipantCapacity == 2
MessageCapacity == 1

Tasks == 1..MaxTasks
\* the identities the repository is called with
RepositoryIds == {"alice", "bob"}

\* how far below and above a length limit the strings given to a value
\* object's new go
Slack == 1

VARIABLES
    connected_clients,  \* state.connected_clients: client_id -> ClientInfo
    lock,               \* holder of the connected_clients mutex, 0 when free
    now,                \* the wall clock read by get_jst_timestamp
    nsess,              \* calls of websocket_handler so far
    nids,               \* identities of IdOrder used so far
    nframes,            \* text frames received so far
    pc,                 \* per call: where websocket_handler/handle_socket is
    client_id,          \* per call: query.client_id
    joined_at,          \* per call: connected_at of handle_socket (line 71)
    rx,                 \* per call: content of the mpsc channel (tx, rx)
    rx_open,            \* per call: the receiver rx is alive
    socket              \* per call: text frames written to the WebSocket

server_vars == <<connected_clients, lock, now, nsess, nids, nframes, pc,
                 client_id, joined_at, rx, rx_open, socket>>

VARIABLES
    repository_clients, \* InMemoryRoomRepository.connected_clients
    clients_guard,      \* the task holding the guard of that mutex, else 0
    room,               \* InMemoryRoomRepository.room: the Room aggregate
    ncalls,             \* calls of repository operations so far
    task_pc,            \* per task: where it is in add/remove_participant
    task_arg,           \* per task: client_id and timestamp of its call
    task_result         \* per task: what its last call returned

repository_vars == <<repository_clients, clients_guard, room, ncalls, task_pc,
                     task_arg, task_result>>

VARIABLES
    value_input,        \* the two strings given to a value object's new
    value_result        \* what the two calls of new returned

value_vars == <<value_input, value_result>>

VARIABLES
    session_pc,         \* per client: where run_client_session is
    handshake,          \* per client: what connect_async returned
    session_result,     \* per client: what run_client_session returned
    read_task,          \* per client: the task reading the WebSocket
    write_task,         \* per client: the task writing the input lines
    attempts,           \* per client: calls of connect_async
    exit_status         \* per client: exit status of the process, -1 none

session_vars == <<session_pc, handshake, session_result, read_task,
                  write_task, attempts, exit_status>>

vars == <<server_vars, repository_vars, value_vars, session_vars>>

(***************************************************************************)
(* Rust strings (std::string::String, UTF-8).  A string of the model is a  *)
(* token written n times: String::len counts the bytes of the encoding,    *)
(* chars().count() the characters.  "U+3042" is the one character          *)
(* HIRAGANA LETTER A, three bytes long.                                    *)
(***************************************************************************)
Tokens == {"a", "b", "U+3042", "alice", "bob", "carol", "hi", "hello", "Hello"}

TokenChars(tok) ==
    CASE tok \in {"a", "b", "U+3042"} -> 1
      [] tok = "hi" -> 2
      [] tok = "bob" -> 3
      [] OTHER -> 5

TokenBytes(tok) == IF tok = "U+3042" THEN 3 ELSE TokenChars(tok)

String(tok, n) == [tok |-> IF n = 0 THEN "a" ELSE tok, n |-> n]

EmptyString == String("a", 0)

\* String::len
len(str) == str.n * TokenBytes(str.tok)

\* String::is_empty
is_empty(str) == len(str) = 0

\* str.chars().count()
chars_count(str) == str.n * TokenChars(str.tok)

\* the Rust string a text of the server model (an identity, a content)
\* stands for
AsString(text) == IF text = "" THEN EmptyString ELSE String(text, 1)

(***************************************************************************)
(* Messages (server/handler.rs builds them, serde_json writes them).       *)
(***************************************************************************)
ParticipantInfo(id, info) == [client_id |-> id, connected_at |-> info.connected_at]

\* mutant: the participant list is left empty
RoomConnectedEmpty(clients) ==
    [type |-> "room-connected", participants |-> {}]

RoomConnectedMessage(clients) ==
    [type |-> "room-connected",
     participants |-> {ParticipantInfo(id, clients[id]) : id \in DOMAIN clients}]

\* mutant: participant-joined carries the time of the broadcast
ParticipantJoinedNow(id, t) ==
    [type |-> "participant-joined", client_id |-> id, connected_at |-> now]

ParticipantJoinedMessage(id, t) ==
    [type |-> "participant-joined", client_id |-> id, connected_at |-> t]

ParticipantLeftMessage(id, t) ==
    [type |-> "participant-left", client_id |-> id, disconnected_at |-> t]

ChatMessage(id, content, t) ==
    [type |-> "chat", client_id |-> id, content |-> content, timestamp |-> t]

\* Text frames a client may send: chat envelopes (the payload may name any
\* client_id) and a text that is not JSON.
RawTexts == {[type |-> "text", raw |-> "hello"]}
ChatTexts == {ChatMessage("alice", "hi", 42), ChatMessage("alice", "", 43)}
Texts == ChatTexts \cup RawTexts

\* mutant: the fallback loses the raw text
ParseChatEmpty(text) ==
    IF text.type = "chat"
    THEN text
    ELSE ChatMessage("unknown", "", 0)

\* serde_json::from_str::<ChatMessage>(&text), with the fallback of lines 142-151
ParseChat(text) ==
    IF text.type = "chat"
    THEN text
    ELSE ChatMessage("unknown", text.raw, 0)

\* mutant: the response drops the client_id of the payload
ChatResponseAnonymous(text) ==
    LET chat_msg == ParseChat(text)
    IN  ChatMessage("unknown", chat_msg.content, chat_msg.timestamp)

\* the response of lines 155-160
ChatResponse(text) ==
    LET chat_msg == ParseChat(text)
    IN  ChatMessage(chat_msg.client_id, chat_msg.content, chat_msg.timestamp)

(***************************************************************************)
(* The registry connected_clients (a HashMap<String, ClientInfo>).         *)
(***************************************************************************)
NoClients == [id \in {} |-> [sender |-> 0, connected_at |-> 0]]

ClientInfo(s, t) == [sender |-> s, connected_at |-> t]

\* mutant: the duplicate check never finds the key
contains_key_never(clients, id) == FALSE

contains_key(clients, id) == id \in DOMAIN clients

\* mutant: the entry is not inserted
insert_nothing(clients, id, info) == clients

insert(clients, id, info) ==
    [i \in DOMAIN clients \cup {id} |-> IF i = id THEN info ELSE clients[i]]

\* mutant: the cleanup empties the registry
remove_all(clients, id) == [i \in {} |-> clients[i]]

\* mutant: the entry is not removed
remove_nothing(clients, id) == clients

remove(clients, id) == [i \in DOMAIN clients \ {id} |-> clients[i]]

\* mutant: the fan-out does not skip the sender
OtherSendersAndSelf(clients, id) ==
    {clients[i].sender : i \in DOMAIN clients}

\* the senders the fan-out loops of lines 110-117 and 171-178 send to
OtherSenders(clients, id) ==
    {clients[i].sender : i \in DOMAIN clients \ {id}}

\* the senders the loop of lines 227-231 sends to
AllSenders(clients) == {clients[i].sender : i \in DOMAIN clients}

\* What a channel or a socket holds: the text msg, and two history fields
\* that are not program state: the call that sent it and the targets of the
\* same fan-out whose receiver was gone.
Item(msg, from, targets) ==
    [msg |-> msg, from |-> from, lost |-> {t \in targets : ~rx_open[t]}]

\* mutant: the fan-out puts the message at the head of every second channel
SendAllMixed(targets, msg, from) ==
    [s \in Sessions |->
        IF s \in targets /\ rx_open[s]
        THEN IF s % 2 = 0
             THEN <<Item(msg, from, targets)>> \o rx[s]
             ELSE Append(rx[s], Item(msg, from, targets))
        ELSE rx[s]]

\* mutant: the fan-out gives up at the first send that fails
SendAllOrNothing(targets, msg, from) ==
    IF \E t \in targets : ~rx_open[t]
    THEN rx
    ELSE [s \in Sessions |->
            IF s \in targets
            THEN Append(rx[s], Item(msg, from, targets))
            ELSE rx[s]]

\* mutant: the fan-out loop ends after the first client it sent to
SendAllFirstOnly(targets, msg, from) ==
    [s \in Sessions |->
        IF s \in targets /\ rx_open[s] /\ \A t \in targets : s <= t
        THEN Append(rx[s], Item(msg, from, targets))
        ELSE rx[s]]

\* UnboundedSender::send on each target: it fails when the receiver is gone
SendAll(targets, msg, from) ==
    [s \in Sessions |->
        IF s \in targets /\ rx_open[s]
        THEN Append(rx[s], Item(msg, from, targets))
        ELSE rx[s]]

\* mutant: the receiver hands out the newest message
recv_newest(queue) == queue[Len(queue)]

\* rx.recv() of line 195: the oldest message of the channel
recv(queue) == Head(queue)

\* Every read of the clock yields a later value than the read before, so
\* that two timestamps taken at different places never agree by chance.
get_jst_timestamp == now

(***************************************************************************)
(* Initial state: run_server creates an empty registry.                    *)
(***************************************************************************)
ServerInit ==
    /\ connected_clients = NoClients
    /\ lock = 0
    /\ now = 1
    /\ nsess = 0
    /\ nids = 0
    /\ nframes = 0
    /\ pc = [s \in Sessions |-> "unused"]
    /\ client_id = [s \in Sessions |-> NoClientId]
    /\ joined_at = [s \in Sessions |-> 0]
    /\ rx = [s \in Sessions |-> << >>]
    /\ rx_open = [s \in Sessions |-> FALSE]
    /\ socket = [s \in Sessions |-> << >>]

\* create_test_repository: an empty map and a new Room; no call in flight
RepositoryInit ==
    /\ repository_clients = NoClients
    /\ clients_guard = 0
    /\ room = [participants |-> << >>, messages |-> << >>]
    /\ ncalls = 0
    /\ task_pc = [k \in Tasks |-> "idle"]
    /\ task_arg = [k \in Tasks |-> [client_id |-> "", timestamp |-> 0]]
    /\ task_result = [k \in Tasks |-> "none"]

\* no value object has been made
NoValueCall ==
    /\ value_input = <<EmptyString, EmptyString>>
    /\ value_result = [op |-> "none"]

\* no client process has connected yet
NoHandshake == [ok |-> FALSE, error_msg |-> << >>, status |-> 0]

SessionInit ==
    /\ session_pc = [c \in 1..MaxClients |-> "start"]
    /\ handshake = [c \in 1..MaxClients |-> NoHandshake]
    /\ session_result = [c \in 1..MaxClients |-> "none"]
    /\ read_task = [c \in 1..MaxClients |-> "unspawned"]
    /\ write_task = [c \in 1..MaxClients |-> "unspawned"]
    /\ attempts = [c \in 1..MaxClients |-> 0]
    /\ exit_status = [c \in 1..MaxClients |-> -1]

Init == ServerInit /\ RepositoryInit /\ NoValueCall /\ SessionInit

(***************************************************************************)
(* websocket_handler, lines 31-55: a request arrives; the channel is       *)
(* created, the connect time is read, and one critical section holds the   *)
(* duplicate check and the insert.  A duplicate is answered 409 and its    *)
(* channel dropped.                                                        *)
(***************************************************************************)
websocket_handler(s, id) ==
    /\ s = nsess + 1
    /\ s <= MaxSessions
    /\ \E i \in 1..Len(IdOrder) : i <= nids + 1 /\ id = IdOrder[i]
    /\ lock = 0
    /\ nsess' = s
    /\ nids' = IF id \in {IdOrder[i] : i \in 1..nids} THEN nids ELSE nids + 1
    /\ now' = now + 1
    /\ client_id' = [client_id EXCEPT ![s] = id]
    /\ IF contains_key(connected_clients, id)
       THEN /\ pc' = [pc EXCEPT ![s] = "conflict"]
            /\ UNCHANGED <<connected_clients, rx_open>>
       ELSE /\ connected_clients' =
                  insert(connected_clients, id, ClientInfo(s, get_jst_timestamp))
            /\ pc' = [pc EXCEPT ![s] = "registered"]
            /\ rx_open' = [rx_open EXCEPT ![s] = TRUE]
    /\ UNCHANGED <<lock, nframes, joined_at, rx, socket>>
    /\ UNCHANGED <<repository_vars, value_vars, session_vars>>

(***************************************************************************)
(* handle_socket, line 72: the mutex is taken; it stays held over the      *)
(* write of the room-connected frame (line 87).                            *)
(***************************************************************************)
handle_socket_lock(s) ==
    /\ pc[s] = "registered"
    /\ lock = 0
    /\ lock' = s
    /\ pc' = [pc EXCEPT ![s] = "room_connected"]
    /\ UNCHANGED <<connected_clients, now, nsess, nids, nframes, client_id,
                   joined_at, rx, rx_open, socket>>
    /\ UNCHANGED <<repository_vars, value_vars, session_vars>>

\* lines 73-98: the write succeeded
handle_socket_room_connected(s) ==
    /\ pc[s] = "room_connected"
    /\ lock = s
    /\ socket' = [socket EXCEPT
                    ![s] = Append(@, Item(RoomConnectedMessage(connected_clients), s, {}))]
    /\ joined_at' = [joined_at EXCEPT
                       ![s] = connected_clients[client_id[s]].connected_at]
    /\ lock' = 0
    /\ pc' = [pc EXCEPT ![s] = "joined"]
    /\ UNCHANGED <<connected_clients, now, nsess, nids, nframes, client_id,
                   rx, rx_open>>
    /\ UNCHANGED <<repository_vars, value_vars, session_vars>>

\* mutant: a failed room-connected write goes on to the cleanup
handle_socket_send_failed_cleanup(s) ==
    /\ pc[s] = "room_connected"
    /\ lock = s
    /\ lock' = 0
    /\ pc' = [pc EXCEPT ![s] = "cleanup"]
    /\ rx_open' = [rx_open EXCEPT ![s] = FALSE]
    /\ rx' = [rx EXCEPT ![s] = << >>]
    /\ UNCHANGED <<connected_clients, now, nsess, nids, nframes, client_id,
                   joined_at, socket>>
    /\ UNCHANGED <<repository_vars, value_vars, session_vars>>

\* lines 87-90: the write failed; handle_socket returns, which drops rx
handle_socket_send_failed(s) ==
    /\ pc[s] = "room_connected"
    /\ lock = s
    /\ lock' = 0
    /\ pc' = [pc EXCEPT ![s] = "returned"]
    /\ rx_open' = [rx_open EXCEPT ![s] = FALSE]
    /\ rx' = [rx EXCEPT ![s] = << >>]
    /\ UNCHANGED <<connected_clients, now, nsess, nids, nframes, client_id,
                   joined_at, socket>>
    /\ UNCHANGED <<repository_vars, value_vars, session_vars>>

(***************************************************************************)
(* handle_socket, lines 100-119: participant-joined to the other clients;  *)
(* then the two tasks are spawned (lines 125 and 194).                     *)
(***************************************************************************)
handle_socket_joined(s) ==
    LET msg == ParticipantJoinedMessage(client_id[s], joined_at[s])
        targets == OtherSenders(connected_clients, client_id[s])
    IN  /\ pc[s] = "joined"
        /\ lock = 0
        /\ rx' = SendAll(targets, msg, s)
        /\ pc' = [pc EXCEPT ![s] = "active"]
        /\ UNCHANGED <<connected_clients, lock, now, nsess, nids, nframes,
                       client_id, joined_at, rx_open, socket>>
        /\ UNCHANGED <<repository_vars, value_vars, session_vars>>

(***************************************************************************)
(* recv_task, lines 126-191.                                               *)
(***************************************************************************)
\* lines 136-178: a text frame arrives, is parsed and is sent to the other
\* clients under the mutex
recv_task_text(s, text) ==
    LET msg == ChatResponse(text)
        targets == OtherSenders(connected_clients, client_id[s])
    IN  /\ pc[s] = "active"
        /\ nframes < MaxFrames
        /\ lock = 0
        /\ nframes' = nframes + 1
        /\ rx' = SendAll(targets, msg, s)
        /\ UNCHANGED <<connected_clients, lock, now, nsess, nids, pc,
                       client_id, joined_at, rx_open, socket>>
        /\ UNCHANGED <<repository_vars, value_vars, session_vars>>

\* lines 126-132 and 184-187: a read error, the end of the stream or a
\* close frame ends recv_task; the select of lines 204-207 aborts
\* send_task, which drops rx with what is queued in it
recv_task_break(s) ==
    /\ pc[s] = "active"
    /\ pc' = [pc EXCEPT ![s] = "cleanup"]
    /\ rx_open' = [rx_open EXCEPT ![s] = FALSE]
    /\ rx' = [rx EXCEPT ![s] = << >>]
    /\ socket' = [socket EXCEPT ![s] = << >>]
    /\ UNCHANGED <<connected_clients, lock, now, nsess, nids, nframes,
                   client_id, joined_at>>
    /\ UNCHANGED <<repository_vars, value_vars, session_vars>>

(***************************************************************************)
(* send_task, lines 194-201.                                               *)
(***************************************************************************)
\* mutant: send_task runs from the registration on
send_task_write_early(s) ==
    /\ pc[s] \in {"registered", "active"}
    /\ rx[s] # << >>
    /\ socket' = [socket EXCEPT ![s] = Append(@, recv(rx[s]))]
    /\ rx' = [rx EXCEPT ![s] = Tail(@)]
    /\ UNCHANGED <<connected_clients, lock, now, nsess, nids, nframes, pc,
                   client_id, joined_at, rx_open>>
    /\ UNCHANGED <<repository_vars, value_vars, session_vars>>

\* rx.recv() yields the oldest message and the write succeeds
send_task_write(s) ==
    /\ pc[s] = "active"
    /\ rx[s] # << >>
    /\ socket' = [socket EXCEPT ![s] = Append(@, recv(rx[s]))]
    /\ rx' = [rx EXCEPT ![s] = Tail(@)]
    /\ UNCHANGED <<connected_clients, lock, now, nsess, nids, nframes, pc,
                   client_id, joined_at, rx_open>>
    /\ UNCHANGED <<repository_vars, value_vars, session_vars>>

\* the write fails: send_task ends, which drops rx; the select of lines
\* 204-207 aborts recv_task
send_task_break(s) ==
    /\ pc[s] = "active"
    /\ rx[s] # << >>
    /\ pc' = [pc EXCEPT ![s] = "cleanup"]
    /\ rx_open' = [rx_open EXCEPT ![s] = FALSE]
    /\ rx' = [rx EXCEPT ![s] = << >>]
    /\ socket' = [socket EXCEPT ![s] = << >>]
    /\ UNCHANGED <<connected_clients, lock, now, nsess, nids, nframes,
                   client_id, joined_at>>
    /\ UNCHANGED <<repository_vars, value_vars, session_vars>>

(***************************************************************************)
(* handle_socket, lines 210-233: remove the client and send                *)
(* participant-left to every client that remains.                          *)
(***************************************************************************)
handle_socket_cleanup(s) ==
    LET clients == remove(connected_clients, client_id[s])
        msg == ParticipantLeftMessage(client_id[s], get_jst_timestamp)
        targets == AllSenders(clients)
    IN  /\ pc[s] = "cleanup"
        /\ lock = 0
        /\ connected_clients' = clients
        /\ now' = now + 1
        /\ rx' = SendAll(targets, msg, s)
        /\ pc' = [pc EXCEPT ![s] = "terminated"]
        /\ socket' = [socket EXCEPT ![s] = << >>]
        /\ client_id' = [client_id EXCEPT ![s] = NoClientId]
        /\ joined_at' = [joined_at EXCEPT ![s] = 0]
        /\ UNCHANGED <<lock, nsess, nids, nframes, rx_open>>
        /\ UNCHANGED <<repository_vars, value_vars, session_vars>>

Next ==
    \/ \E s \in Sessions, id \in Ids : websocket_handler(s, id)
    \/ \E s \in Sessions : handle_socket_lock(s)
    \/ \E s \in Sessions : handle_socket_room_connected(s)
    \/ \E s \in Sessions : handle_socket_send_failed(s)
    \/ \E s \in Sessions : handle_socket_joined(s)
    \/ \E s \in Sessions, text \in Texts : recv_task_text(s, text)
    \/ \E s \in Sessions : recv_task_break(s)
    \/ \E s \in Sessions : send_task_write(s)
    \/ \E s \in Sessions : send_task_break(s)
    \/ \E s \in Sessions : handle_socket_cleanup(s)

Spec == Init /\ [][Next]_vars

\* The tokio runtime runs every task that can run, and its mutex is handed
\* to every waiter: handle_socket takes its steps, a write to a socket ends
\* (with success or with an error), send_task takes what is in its channel.
\* When a client sends a frame or closes, and whether a new client connects,
\* is up to the clients.
Fairness ==
    \A s \in Sessions :
       /\ WF_vars(handle_socket_lock(s))
       /\ WF_vars(handle_socket_room_connected(s) \/ handle_socket_send_failed(s))
       /\ WF_vars(handle_socket_joined(s))
       /\ WF_vars(send_task_write(s) \/ send_task_break(s))
       /\ WF_vars(handle_socket_cleanup(s))

FairSpec == Spec /\ Fairness

(***************************************************************************)
(* The same scheduling when the connection of one call stalls: its socket  *)
(* accepts no write, so neither the write of room-connected (line 87) nor  *)
(* a write of its send_task (line 196) ever ends, with or without error.   *)
(***************************************************************************)
Stalled == 2

StallFairness ==
    \A s \in Sessions :
       /\ WF_vars(handle_socket_lock(s))
       /\ WF_vars(handle_socket_joined(s))
       /\ WF_vars(handle_socket_cleanup(s))
       /\ s # Stalled =>
             /\ WF_vars(handle_socket_room_connected(s)
                           \/ handle_socket_send_failed(s))
             /\ WF_vars(send_task_write(s) \/ send_task_break(s))

StallSpec == Spec /\ StallFairness

(***************************************************************************)
(* The end of recv_task in three steps.  recv_task and send_task are two   *)
(* tokio tasks of their own and handle_socket a third: when recv_task      *)
(* returns, send_task runs on until handle_socket is polled, its select    *)
(* (lines 204-207) calls send_task.abort() and the task is dropped.        *)
(* recv_task_break is the case where nothing happens in between.           *)
(***************************************************************************)
\* lines 126-132 and 184-187: recv_task returns; rx and send_task live on
recv_task_finish(s) ==
    /\ pc[s] = "active"
    /\ pc' = [pc EXCEPT ![s] = "finished"]
    /\ UNCHANGED <<connected_clients, lock, now, nsess, nids, nframes,
                   client_id, joined_at, rx, rx_open, socket>>
    /\ UNCHANGED <<repository_vars, value_vars, session_vars>>

\* lines 195-200: send_task, not yet aborted, writes the oldest message
send_task_write_late(s) ==
    /\ pc[s] = "finished"
    /\ rx[s] # << >>
    /\ socket' = [socket EXCEPT ![s] = Append(@, recv(rx[s]))]
    /\ rx' = [rx EXCEPT ![s] = Tail(@)]
    /\ UNCHANGED <<connected_clients, lock, now, nsess, nids, nframes, pc,
                   client_id, joined_at, rx_open>>
    /\ UNCHANGED <<repository_vars, value_vars, session_vars>>

\* mutant: the select waits until the channel is drained
select_abort_drained(s) ==
    /\ pc[s] = "finished"
    /\ rx[s] = << >>
    /\ pc' = [pc EXCEPT ![s] = "cleanup"]
    /\ rx_open' = [rx_open EXCEPT ![s] = FALSE]
    /\ socket' = [socket EXCEPT ![s] = << >>]
    /\ UNCHANGED <<connected_clients, lock, now, nsess, nids, nframes,
                   client_id, joined_at, rx>>
    /\ UNCHANGED <<repository_vars, value_vars, session_vars>>

\* lines 204-205: the select sees recv_task finished and aborts send_task,
\* which drops rx with what is queued in it
select_abort(s) ==
    /\ pc[s] = "finished"
    /\ pc' = [pc EXCEPT ![s] = "cleanup"]
    /\ rx_open' = [rx_open EXCEPT ![s] = FALSE]
    /\ rx' = [rx EXCEPT ![s] = << >>]
    /\ socket' = [socket EXCEPT ![s] = << >>]
    /\ UNCHANGED <<connected_clients, lock, now, nsess, nids, nframes,
                   client_id, joined_at>>
    /\ UNCHANGED <<repository_vars, value_vars, session_vars>>

AbortNext ==
    \/ \E s \in Sessions, id \in Ids : websocket_handler(s, id)
    \/ \E s \in Sessions : handle_socket_lock(s)
    \/ \E s \in Sessions : handle_socket_room_connected(s)
    \/ \E s \in Sessions : handle_socket_send_failed(s)
    \/ \E s \in Sessions : handle_socket_joined(s)
    \/ \E s \in Sessions, text \in Texts : recv_task_text(s, text)
    \/ \E s \in Sessions : send_task_write(s)
    \/ \E s \in Sessions : send_task_break(s)
    \/ \E s \in Sessions : recv_task_finish(s)
    \/ \E s \in Sessions : send_task_write_late(s)
    \/ \E s \in Sessions : select_abort(s)
    \/ \E s \in Sessions : handle_socket_cleanup(s)

AbortSpec == Init /\ [][AbortNext]_vars

(***************************************************************************)
(* The end of send_task while recv_task is being polled.  recv_task is a   *)
(* tokio task of its own: between the frame it took from the socket (line  *)
(* 126) and its lock of the registry (line 169) it awaits nothing, and     *)
(* JoinHandle::abort() stops a task only at its next await.  On a runtime  *)
(* with several workers handle_socket can run its select and its cleanup   *)
(* meanwhile.  The content of the frame is drawn at the fan-out.           *)
(***************************************************************************)
\* lines 126-166: recv_task takes a text frame and builds the response
recv_task_receive(s) ==
    /\ pc[s] = "active"
    /\ nframes < MaxFrames
    /\ nframes' = nframes + 1
    /\ pc' = [pc EXCEPT ![s] = "in_hand"]
    /\ UNCHANGED <<connected_clients, lock, now, nsess, nids, client_id,
                   joined_at, rx, rx_open, socket>>
    /\ UNCHANGED <<repository_vars, value_vars, session_vars>>

\* lines 169-178: the fan-out of the frame in hand
recv_task_relay(s, text) ==
    LET msg == ChatResponse(text)
        targets == OtherSenders(connected_clients, client_id[s])
    IN  /\ pc[s] = "in_hand"
        /\ lock = 0
        /\ rx' = SendAll(targets, msg, s)
        /\ pc' = [pc EXCEPT ![s] = "active"]
        /\ UNCHANGED <<connected_clients, lock, now, nsess, nids, nframes,
                       client_id, joined_at, rx_open, socket>>
        /\ UNCHANGED <<repository_vars, value_vars, session_vars>>

\* lines 194-201 and 206: a write of send_task fails, send_task ends and
\* drops rx; the select asks recv_task, which has a frame in hand, to stop
send_task_break_racing(s) ==
    /\ pc[s] = "in_hand"
    /\ rx[s] # << >>
    /\ pc' = [pc EXCEPT ![s] = "cleanup_in_hand"]
    /\ rx_open' = [rx_open EXCEPT ![s] = FALSE]
    /\ rx' = [rx EXCEPT ![s] = << >>]
    /\ socket' = [socket EXCEPT ![s] = << >>]
    /\ UNCHANGED <<connected_clients, lock, now, nsess, nids, nframes,
                   client_id, joined_at>>
    /\ UNCHANGED <<repository_vars, value_vars, session_vars>>

\* lines 169-178: recv_task gets the mutex before the cleanup does; it is
\* dropped at its next await
recv_task_relay_racing(s, text) ==
    LET msg == ChatResponse(text)
        targets == OtherSenders(connected_clients, client_id[s])
    IN  /\ pc[s] = "cleanup_in_hand"
        /\ lock = 0
        /\ rx' = SendAll(targets, msg, s)
        /\ pc' = [pc EXCEPT ![s] = "cleanup"]
        /\ UNCHANGED <<connected_clients, lock, now, nsess, nids, nframes,
                       client_id, joined_at, rx_open, socket>>
        /\ UNCHANGED <<repository_vars, value_vars, session_vars>>

\* lines 210-233: the cleanup gets the mutex before recv_task does
handle_socket_cleanup_racing(s) ==
    LET clients == remove(connected_clients, client_id[s])
        msg == ParticipantLeftMessage(client_id[s], get_jst_timestamp)
        targets == AllSenders(clients)
    IN  /\ pc[s] = "cleanup_in_hand"
        /\ lock = 0
        /\ connected_clients' = clients
        /\ now' = now + 1
        /\ rx' = SendAll(targets, msg, s)
        /\ pc' = [pc EXCEPT ![s] = "terminated_in_hand"]
        /\ UNCHANGED <<lock, nsess, nids, nframes, client_id, joined_at,
                       rx_open, socket>>
        /\ UNCHANGED <<repository_vars, value_vars, session_vars>>

\* lines 169-178: recv_task, still running, locks the registry after the
\* cleanup and sends to every client but one with its own client_id
recv_task_relay_after_left(s, text) ==
    LET msg == ChatResponse(text)
        targets == OtherSenders(connected_clients, client_id[s])
    IN  /\ pc[s] = "terminated_in_hand"
        /\ lock = 0
        /\ rx' = SendAll(targets, msg, s)
        /\ pc' = [pc EXCEPT ![s] = "terminated"]
        /\ client_id' = [client_id EXCEPT ![s] = NoClientId]
        /\ joined_at' = [joined_at EXCEPT ![s] = 0]
        /\ UNCHANGED <<connected_clients, lock, now, nsess, nids, nframes,
                       rx_open, socket>>
        /\ UNCHANGED <<repository_vars, value_vars, session_vars>>

RaceNext ==
    \/ \E s \in Sessions, id \in Ids : websocket_handler(s, id)
    \/ \E s \in Sessions : handle_socket_lock(s)
    \/ \E s \in Sessions : handle_socket_room_connected(s)
    \/ \E s \in Sessions : handle_socket_joined(s)
    \/ \E s \in Sessions : recv_task_receive(s)
    \/ \E s \in Sessions, text \in Texts : recv_task_relay(s, text)
    \/ \E s \in Sessions : send_task_write(s)
    \/ \E s \in Sessions : send_task_break(s)
    \/ \E s \in Sessions : send_task_break_racing(s)
    \/ \E s \in Sessions, text \in Texts : recv_task_relay_racing(s, text)
    \/ \E s \in Sessions : handle_socket_cleanup(s)
    \/ \E s \in Sessions : handle_socket_cleanup_racing(s)
    \/ \E s \in Sessions, text \in Texts : recv_task_relay_after_left(s, text)

RaceSpec == Init /\ [][RaceNext]_vars

(***************************************************************************)
(* Sessions that stay connected and go on sending: the frames beyond the   *)
(* MaxFrames of Spec, as many as the message history of the Room has       *)
(* places, but no connection ends.                                         *)
(***************************************************************************)
\* websocket_handler, lines 31-55, for a further request
websocket_handler_more(s, id) ==
    /\ s = nsess + 1
    /\ s > MaxSessions
    /\ s <= MaxSessions + MoreSessions
    /\ \E i \in 1..Len(IdOrder) : i <= nids + 1 /\ id = IdOrder[i]
    /\ lock = 0
    /\ nsess' = s
    /\ nids' = IF id \in {IdOrder[i] : i \in 1..nids} THEN nids ELSE nids + 1
    /\ now' = now + 1
    /\ client_id' = [client_id EXCEPT ![s] = id]
    /\ IF contains_key(connected_clients, id)
       THEN /\ pc' = [pc EXCEPT ![s] = "conflict"]
            /\ UNCHANGED <<connected_clients, rx_open>>
       ELSE /\ connected_clients' =
                  insert(connected_clients, id, ClientInfo(s, get_jst_timestamp))
            /\ pc' = [pc EXCEPT ![s] = "registered"]
            /\ rx_open' = [rx_open EXCEPT ![s] = TRUE]
    /\ UNCHANGED <<lock, nframes, joined_at, rx, socket>>
    /\ UNCHANGED <<repository_vars, value_vars, session_vars>>

\* recv_task, lines 136-178, for a further text frame
recv_task_text_more(s, text) ==
    LET msg == ChatResponse(text)
        targets == OtherSenders(connected_clients, client_id[s])
    IN  /\ pc[s] = "active"
        /\ nframes >= MaxFrames
        /\ nframes < MaxFrames + MessageCapacity
        /\ lock = 0
        /\ nframes' = nframes + 1
        /\ rx' = SendAll(targets, msg, s)
        /\ UNCHANGED <<connected_clients, lock, now, nsess, nids, pc,
                       client_id, joined_at, rx_open, socket>>
        /\ UNCHANGED <<repository_vars, value_vars, session_vars>>

RelayNext ==
    \/ \E s \in Sessions, id \in Ids : websocket_handler(s, id)
    \/ \E s \in Sessions : handle_socket_lock(s)
    \/ \E s \in Sessions : handle_socket_room_connected(s)
    \/ \E s \in Sessions : handle_socket_joined(s)
    \/ \E s \in Sessions, text \in Texts : recv_task_text(s, text)
    \/ \E s \in Sessions, text \in Texts : recv_task_text_more(s, text)
    \/ \E s \in Sessions : send_task_write(s)

RelaySpec == Init /\ [][RelayNext]_vars

\* The admissions and fan-outs of MaxSessions + MoreSessions calls that stay
\* connected; the channels keep what is enqueued to them.
OrderNext ==
    \/ \E s \in Sessions, id \in Ids : websocket_handler(s, id)
    \/ \E s \in Sessions, id \in Ids : websocket_handler_more(s, id)
    \/ \E s \in Sessions : handle_socket_lock(s)
    \/ \E s \in Sessions : handle_socket_room_connected(s)
    \/ \E s \in Sessions : handle_socket_joined(s)
    \/ \E s \in Sessions, text \in Texts : recv_task_text(s, text)

OrderSpec == Init /\ [][OrderNext]_vars

(***************************************************************************)
(* The Room aggregate (domain/entity.rs).  Its operations follow the       *)
(* specification of RoomAggregate: a capacity check against a fixed bound, *)
(* then an append; removal keeps every participant with another identity.  *)
(* RoomError has the two variants CapacityExceeded and                     *)
(* MessageCapacityExceeded only (domain/error.rs).                         *)
(***************************************************************************)
Participant(id, timestamp) == [id |-> id, connected_at |-> timestamp]

Room_add_participant(r, participant) ==
    IF Len(r.participants) >= ParticipantCapacity
    THEN [ok |-> FALSE, room |-> r]
    ELSE [ok |-> TRUE,
          room |-> [r EXCEPT !.participants = Append(@, participant)]]

\* mutant: only the first participant with the identity is removed
Room_remove_first(r, id) ==
    LET hits == {i \in 1..Len(r.participants) : r.participants[i].id = id}
        first == CHOOSE i \in hits : \A j \in hits : i <= j
    IN  IF hits = {}
        THEN r
        ELSE [r EXCEPT !.participants =
                 SubSeq(@, 1, first - 1) \o SubSeq(@, first + 1, Len(@))]

Room_remove_participant(r, id) ==
    LET Other(p) == p.id # id
    IN  [r EXCEPT !.participants = SelectSeq(@, Other)]

Room_add_message(r, message) ==
    IF Len(r.messages) >= MessageCapacity
    THEN [ok |-> FALSE, room |-> r]
    ELSE [ok |-> TRUE, room |-> [r EXCEPT !.messages = Append(@, message)]]

(***************************************************************************)
(* InMemoryRoomRepository (infrastructure/repository/inmemory/room.rs).    *)
(* A task is between two steps only where the code awaits a mutex.  The    *)
(* room mutex is never held over an await, so only the guard of the        *)
(* connected_clients mutex is state.                                       *)
(***************************************************************************)
\* mutant: the participant is pushed whatever the Room answers
add_participant_room_forced(k, id) ==
    /\ task_pc[k] = "idle"
    /\ ncalls < MaxCalls
    /\ ncalls' = ncalls + 1
    /\ task_arg' = [task_arg EXCEPT
                      ![k] = [client_id |-> id, timestamp |-> ncalls + 1]]
    /\ room' = [room EXCEPT
                  !.participants = Append(@, Participant(id, ncalls + 1))]
    /\ task_pc' = [task_pc EXCEPT ![k] = "add_clients"]
    /\ task_result' = [task_result EXCEPT ![k] = "none"]
    /\ UNCHANGED <<repository_clients, clients_guard>>
    /\ UNCHANGED <<server_vars, value_vars, session_vars>>

\* add_participant, lines 62-76: the participant is added to the Room
\* under the room mutex; an error of the Room is returned as
\* ParticipantNotFound
add_participant_room(k, id) ==
    LET timestamp == ncalls + 1
        added == Room_add_participant(room, Participant(id, timestamp))
    IN  /\ task_pc[k] = "idle"
        /\ ncalls < MaxCalls
        /\ ncalls' = ncalls + 1
        /\ task_arg' = [task_arg EXCEPT
                          ![k] = [client_id |-> id, timestamp |-> timestamp]]
        /\ IF added.ok
           THEN /\ room' = added.room
                /\ task_pc' = [task_pc EXCEPT ![k] = "add_clients"]
                /\ task_result' = [task_result EXCEPT ![k] = "none"]
           ELSE /\ task_result' = [task_result EXCEPT ![k] = "ParticipantNotFound"]
                /\ UNCHANGED <<room, task_pc>>
        /\ UNCHANGED <<repository_clients, clients_guard>>
        /\ UNCHANGED <<server_vars, value_vars, session_vars>>

\* add_participant, lines 78-88: the insert under the connected_clients
\* mutex
add_participant_clients(k) ==
    /\ task_pc[k] = "add_clients"
    /\ clients_guard = 0
    /\ repository_clients' =
          insert(repository_clients, task_arg[k].client_id,
                 ClientInfo(k, task_arg[k].timestamp))
    /\ task_pc' = [task_pc EXCEPT ![k] = "idle"]
    /\ task_result' = [task_result EXCEPT ![k] = "Ok"]
    /\ UNCHANGED <<clients_guard, room, ncalls, task_arg>>
    /\ UNCHANGED <<server_vars, value_vars, session_vars>>

\* remove_participant, lines 91-98: the entry is removed under the
\* connected_clients mutex, whose guard lives to the end of the function;
\* ClientInfoNotFound is returned when there is none
remove_participant_clients(k, id) ==
    /\ task_pc[k] = "idle"
    /\ ncalls < MaxCalls
    /\ clients_guard = 0
    /\ ncalls' = ncalls + 1
    /\ task_arg' = [task_arg EXCEPT ![k] = [client_id |-> id, timestamp |-> 0]]
    /\ IF contains_key(repository_clients, id)
       THEN /\ repository_clients' = remove(repository_clients, id)
            /\ clients_guard' = k
            /\ task_pc' = [task_pc EXCEPT ![k] = "remove_room"]
            /\ task_result' = [task_result EXCEPT ![k] = "none"]
       ELSE /\ task_result' = [task_result EXCEPT ![k] = "ClientInfoNotFound"]
            /\ UNCHANGED <<repository_clients, clients_guard, task_pc>>
    /\ UNCHANGED room
    /\ UNCHANGED <<server_vars, value_vars, session_vars>>

\* remove_participant, lines 100-104: the participant is removed from the
\* Room under the room mutex; both guards are dropped
remove_participant_room(k) ==
    /\ task_pc[k] = "remove_room"
    /\ clients_guard = k
    /\ room' = Room_remove_participant(room, task_arg[k].client_id)
    /\ clients_guard' = 0
    /\ task_pc' = [task_pc EXCEPT ![k] = "idle"]
    /\ task_result' = [task_result EXCEPT ![k] = "Ok"]
    /\ UNCHANGED <<repository_clients, ncalls, task_arg>>
    /\ UNCHANGED <<server_vars, value_vars, session_vars>>

\* add_message, lines 115-126: the message is added to the Room under the
\* room mutex; an error of the Room is returned as RoomNotFound
add_message(k, id, content) ==
    LET timestamp == ncalls + 1
        added == Room_add_message(room,
                    [from |-> id, content |-> content, timestamp |-> timestamp])
    IN  /\ task_pc[k] = "idle"
        /\ ncalls < MaxCalls
        /\ ncalls' = ncalls + 1
        /\ IF added.ok
           THEN /\ room' = added.room
                /\ task_result' = [task_result EXCEPT ![k] = "Ok"]
           ELSE /\ task_result' = [task_result EXCEPT ![k] = "RoomNotFound"]
                /\ UNCHANGED room
        /\ UNCHANGED <<repository_clients, clients_guard, task_pc, task_arg>>
        /\ UNCHANGED <<server_vars, value_vars, session_vars>>

\* lines 107-113: the keys of the map (every key was made from a ClientId)
get_all_connected_client_ids == DOMAIN repository_clients

\* lines 128-131
count_connected_clients == Cardinality(DOMAIN repository_clients)

\* lines 133-136
get_participants == room.participants

RepositoryNext ==
    \/ \E k \in Tasks, id \in RepositoryIds : add_participant_room(k, id)
    \/ \E k \in Tasks : add_participant_clients(k)
    \/ \E k \in Tasks, id \in RepositoryIds : remove_participant_clients(k, id)
    \/ \E k \in Tasks : remove_participant_room(k)
    \/ \E k \in Tasks, id \in RepositoryIds : add_message(k, id, "Hello")

RepositorySpec == Init /\ [][RepositoryNext]_vars

(***************************************************************************)
(* The same repository with every acquisition of a mutex as a step of its  *)
(* own: a task that called an operation waits for the mutex, holds it,     *)
(* and releases it where the guard is dropped.  The guard of the room      *)
(* mutex is the position of the task that holds it.                        *)
(***************************************************************************)
\* positions at which a task holds the guard of the room mutex
InRoom == {"add_in_room", "remove_in_room", "message_in_room", "read_in_room"}

\* positions at which a task waits for the room mutex
WaitRoom ==
    {"add_wait_room", "remove_wait_room", "message_wait_room", "read_wait_room"}

\* positions at which a task waits for the connected_clients mutex
WaitClients == {"add_wait_clients", "remove_wait_clients", "read_wait_clients"}

\* the position after the mutex was acquired
Acquired(position) ==
    CASE position = "add_wait_room" -> "add_in_room"
      [] position = "remove_wait_room" -> "remove_in_room"
      [] position = "message_wait_room" -> "message_in_room"
      [] position = "read_wait_room" -> "read_in_room"
      [] position = "add_wait_clients" -> "add_in_clients"
      [] position = "remove_wait_clients" -> "remove_in_clients"
      [] position = "read_wait_clients" -> "read_in_clients"

\* self.room.lock().await (lines 58, 72, 101, 121, 134): the task goes on
\* when no task holds the guard
room_lock(k) ==
    /\ task_pc[k] \in WaitRoom
    /\ \A j \in Tasks : task_pc[j] \notin InRoom
    /\ task_pc' = [task_pc EXCEPT ![k] = Acquired(@)]
    /\ UNCHANGED <<repository_clients, clients_guard, room, ncalls, task_arg,
                   task_result>>
    /\ UNCHANGED <<server_vars, value_vars, session_vars>>

\* self.connected_clients.lock().await (lines 79, 95, 108, 129)
connected_clients_lock(k) ==
    /\ task_pc[k] \in WaitClients
    /\ clients_guard = 0
    /\ clients_guard' = k
    /\ task_pc' = [task_pc EXCEPT ![k] = Acquired(@)]
    /\ UNCHANGED <<repository_clients, room, ncalls, task_arg, task_result>>
    /\ UNCHANGED <<server_vars, value_vars, session_vars>>

\* a task calls an operation: it waits for the first mutex the operation
\* takes
call(k, position, id) ==
    /\ task_pc[k] = "idle"
    /\ ncalls < MaxCalls
    /\ ncalls' = ncalls + 1
    /\ task_arg' = [task_arg EXCEPT
                      ![k] = [client_id |-> id, timestamp |-> ncalls + 1]]
    /\ task_pc' = [task_pc EXCEPT ![k] = position]
    /\ task_result' = [task_result EXCEPT ![k] = "none"]
    /\ UNCHANGED <<repository_clients, clients_guard, room>>
    /\ UNCHANGED <<server_vars, value_vars, session_vars>>

\* add_participant, line 72 first
add_participant_call(k, id) == call(k, "add_wait_room", id)

\* mutant: add_participant takes connected_clients with the room guard held
add_participant_nested(k) ==
    LET arg == task_arg[k]
        added == Room_add_participant(room, Participant(arg.client_id, arg.timestamp))
    IN  /\ task_pc[k] = "add_in_room"
        /\ clients_guard = 0
        /\ IF added.ok
           THEN /\ room' = added.room
                /\ repository_clients' =
                      insert(repository_clients, arg.client_id,
                             ClientInfo(k, arg.timestamp))
                /\ task_result' = [task_result EXCEPT ![k] = "Ok"]
           ELSE /\ task_result' = [task_result EXCEPT ![k] = "ParticipantNotFound"]
                /\ UNCHANGED <<room, repository_clients>>
        /\ task_pc' = [task_pc EXCEPT ![k] = "idle"]
        /\ UNCHANGED <<clients_guard, ncalls, task_arg>>
        /\ UNCHANGED <<server_vars, value_vars, session_vars>>

\* add_participant, lines 71-76: the Room adds the participant or refuses;
\* the block ends and the room guard is dropped
add_participant_add(k) ==
    LET arg == task_arg[k]
        added == Room_add_participant(room, Participant(arg.client_id, arg.timestamp))
    IN  /\ task_pc[k] = "add_in_room"
        /\ IF added.ok
           THEN /\ room' = added.room
                /\ task_pc' = [task_pc EXCEPT ![k] = "add_wait_clients"]
                /\ UNCHANGED task_result
           ELSE /\ task_pc' = [task_pc EXCEPT ![k] = "idle"]
                /\ task_result' = [task_result EXCEPT ![k] = "ParticipantNotFound"]
                /\ UNCHANGED room
        /\ UNCHANGED <<repository_clients, clients_guard, ncalls, task_arg>>
        /\ UNCHANGED <<server_vars, value_vars, session_vars>>

\* add_participant, lines 80-88: the insert; the guard is dropped at the
\* end of the function
add_participant_insert(k) ==
    /\ task_pc[k] = "add_in_clients"
    /\ clients_guard = k
    /\ repository_clients' =
          insert(repository_clients, task_arg[k].client_id,
                 ClientInfo(k, task_arg[k].timestamp))
    /\ clients_guard' = 0
    /\ task_pc' = [task_pc EXCEPT ![k] = "idle"]
    /\ task_result' = [task_result EXCEPT ![k] = "Ok"]
    /\ UNCHANGED <<room, ncalls, task_arg>>
    /\ UNCHANGED <<server_vars, value_vars, session_vars>>

\* remove_participant, line 95 first
remove_participant_call(k, id) == call(k, "remove_wait_clients", id)

\* remove_participant, lines 96-98: the entry is removed, or
\* ClientInfoNotFound is returned, which drops the guard; line 101 then
\* waits for the room mutex with the connected_clients guard held
remove_participant_remove(k) ==
    /\ task_pc[k] = "remove_in_clients"
    /\ clients_guard = k
    /\ IF contains_key(repository_clients, task_arg[k].client_id)
       THEN /\ repository_clients' =
                  remove(repository_clients, task_arg[k].client_id)
            /\ task_pc' = [task_pc EXCEPT ![k] = "remove_wait_room"]
            /\ UNCHANGED <<clients_guard, task_result>>
       ELSE /\ clients_guard' = 0
            /\ task_pc' = [task_pc EXCEPT ![k] = "idle"]
            /\ task_result' = [task_result EXCEPT ![k] = "ClientInfoNotFound"]
            /\ UNCHANGED repository_clients
    /\ UNCHANGED <<room, ncalls, task_arg>>
    /\ UNCHANGED <<server_vars, value_vars, session_vars>>

\* remove_participant, lines 102-105: the Room removes the participant; both
\* guards are dropped at the end of the function
remove_participant_finish(k) ==
    /\ task_pc[k] = "remove_in_room"
    /\ clients_guard = k
    /\ room' = Room_remove_participant(room, task_arg[k].client_id)
    /\ clients_guard' = 0
    /\ task_pc' = [task_pc EXCEPT ![k] = "idle"]
    /\ task_result' = [task_result EXCEPT ![k] = "Ok"]
    /\ UNCHANGED <<repository_clients, ncalls, task_arg>>
    /\ UNCHANGED <<server_vars, value_vars, session_vars>>

\* add_message, line 121 first
add_message_call(k, id) == call(k, "message_wait_room", id)

\* add_message, lines 122-125
add_message_add(k, content) ==
    LET arg == task_arg[k]
        added == Room_add_message(room,
                    [from |-> arg.client_id, content |-> content,
                     timestamp |-> arg.timestamp])
    IN  /\ task_pc[k] = "message_in_room"
        /\ IF added.ok
           THEN /\ room' = added.room
                /\ task_result' = [task_result EXCEPT ![k] = "Ok"]
           ELSE /\ task_result' = [task_result EXCEPT ![k] = "RoomNotFound"]
                /\ UNCHANGED room
        /\ task_pc' = [task_pc EXCEPT ![k] = "idle"]
        /\ UNCHANGED <<repository_clients, clients_guard, ncalls, task_arg>>
        /\ UNCHANGED <<server_vars, value_vars, session_vars>>

\* get_room and get_participants, lines 57-60 and 133-136: a copy is made
\* under the room mutex
read_room_call(k) == call(k, "read_wait_room", "")

read_room_return(k) ==
    /\ task_pc[k] = "read_in_room"
    /\ task_pc' = [task_pc EXCEPT ![k] = "idle"]
    /\ task_result' = [task_result EXCEPT ![k] = "Ok"]
    /\ UNCHANGED <<repository_clients, clients_guard, room, ncalls, task_arg>>
    /\ UNCHANGED <<server_vars, value_vars, session_vars>>

\* get_all_connected_client_ids and count_connected_clients, lines 107-113
\* and 128-131: the map is read under the connected_clients mutex
read_clients_call(k) == call(k, "read_wait_clients", "")

read_clients_return(k) ==
    /\ task_pc[k] = "read_in_clients"
    /\ clients_guard = k
    /\ clients_guard' = 0
    /\ task_pc' = [task_pc EXCEPT ![k] = "idle"]
    /\ task_result' = [task_result EXCEPT ![k] = "Ok"]
    /\ UNCHANGED <<repository_clients, room, ncalls, task_arg>>
    /\ UNCHANGED <<server_vars, value_vars, session_vars>>

\* the steps a task takes once it has called an operation
Proceed(k) ==
    \/ room_lock(k)
    \/ connected_clients_lock(k)
    \/ add_participant_add(k)
    \/ add_participant_insert(k)
    \/ remove_participant_remove(k)
    \/ remove_participant_finish(k)
    \/ add_message_add(k, "Hello")
    \/ read_room_return(k)
    \/ read_clients_return(k)

LockNext ==
    \/ \E k \in Tasks, id \in RepositoryIds : add_participant_call(k, id)
    \/ \E k \in Tasks, id \in RepositoryIds : remove_participant_call(k, id)
    \/ \E k \in Tasks, id \in RepositoryIds : add_message_call(k, id)
    \/ \E k \in Tasks : read_room_call(k)
    \/ \E k \in Tasks : read_clients_call(k)
    \/ \E k \in Tasks : room_lock(k)
    \/ \E k \in Tasks : connected_clients_lock(k)
    \/ \E k \in Tasks : add_participant_add(k)
    \/ \E k \in Tasks : add_participant_insert(k)
    \/ \E k \in Tasks : remove_participant_remove(k)
    \/ \E k \in Tasks : remove_participant_finish(k)
    \/ \E k \in Tasks : add_message_add(k, "Hello")
    \/ \E k \in Tasks : read_room_return(k)
    \/ \E k \in Tasks : read_clients_return(k)

\* The runtime runs every task that can run and the tokio mutex is handed
\* to its waiters in the order they came; with the number of calls bounded,
\* weak fairness of every step of a called operation says no more than
\* that.  Whether an operation is called is up to the callers.
LockFairness ==
    \A k \in Tasks :
       /\ WF_vars(room_lock(k))
       /\ WF_vars(connected_clients_lock(k))
       /\ WF_vars(add_participant_add(k))
       /\ WF_vars(add_participant_insert(k))
       /\ WF_vars(remove_participant_remove(k))
       /\ WF_vars(remove_participant_finish(k))
       /\ WF_vars(add_message_add(k, "Hello"))
       /\ WF_vars(read_room_return(k))
       /\ WF_vars(read_clients_return(k))

LockSpec == Init /\ [][LockNext]_vars /\ LockFairness

(***************************************************************************)
(* Value objects (domain/value_object.rs).                                 *)
(***************************************************************************)
\* the limits of ClientId::new and of MessageContent::new
MaxClientIdLen == 100
MaxMessageContentLen == 10000

Ok(value) == [ok |-> TRUE, value |-> value]

Err(error) == [ok |-> FALSE, error |-> error]

\* ClientId::new, lines 27-39
ClientId_new(id) ==
    IF is_empty(id)
    THEN Err([kind |-> "ClientIdEmpty"])
    ELSE IF len(id) > MaxClientIdLen
         THEN Err([kind |-> "ClientIdTooLong",
                   max |-> MaxClientIdLen, actual |-> len(id)])
         ELSE Ok(id)

\* MessageContent::new, lines 147-159
MessageContent_new(content) ==
    IF is_empty(content)
    THEN Err([kind |-> "MessageContentEmpty"])
    ELSE IF len(content) > MaxMessageContentLen
         THEN Err([kind |-> "MessageContentTooLong",
                   max |-> MaxMessageContentLen, actual |-> len(content)])
         ELSE Ok(content)

\* #[derive(PartialEq, Eq)] on ClientId(String): the strings are compared
ClientId_eq(a, b) == a.value = b.value

\* The strings given to new: short ones, and ones whose number of
\* characters or bytes is within Slack of a limit.
ValueLengths ==
    (0..(1 + Slack))
    \cup {limit \div width + d :
             limit \in {MaxClientIdLen, MaxMessageContentLen},
             width \in {1, 3}, d \in (0 - Slack)..Slack}

ValueStrings ==
    {String(tok, n) : tok \in {"a", "b", "U+3042"}, n \in ValueLengths}

ValueInit ==
    /\ ServerInit
    /\ RepositoryInit
    /\ SessionInit
    /\ value_input \in ValueStrings \X ValueStrings
    /\ value_result = [op |-> "none"]

\* the two strings are made into identities
call_ClientId_new ==
    /\ value_result.op = "none"
    /\ value_result' = [op |-> "ClientId::new",
                        first |-> ClientId_new(value_input[1]),
                        second |-> ClientId_new(value_input[2])]
    /\ UNCHANGED <<value_input, server_vars, repository_vars, session_vars>>

\* the two strings are made into message contents
call_MessageContent_new ==
    /\ value_result.op = "none"
    /\ value_result' = [op |-> "MessageContent::new",
                        first |-> MessageContent_new(value_input[1]),
                        second |-> MessageContent_new(value_input[2])]
    /\ UNCHANGED <<value_input, server_vars, repository_vars, session_vars>>

ValueNext ==
    \/ call_ClientId_new
    \/ call_MessageContent_new

ValueSpec == ValueInit /\ [][ValueNext]_vars


(***************************************************************************)
(* client/session.rs: run_client_session.  One process runs one session.   *)
(* What connect_async returns is an input: an error with its message, or   *)
(* the upgraded stream with the status of the handshake response.  An      *)
(* error message is the sequence of its words.                             *)
(***************************************************************************)
Clients == 1..MaxClients

ErrorMessages ==
    { <<"HTTP error:", "409", "Conflict">>,
      <<"HTTP error:", "503", "Service Unavailable">>,
      <<"IO error:", "Connection refused", "(os error 111)">> }

Handshakes ==
    {[ok |-> FALSE, error_msg |-> m, status |-> 0] : m \in ErrorMessages}
       \cup {[ok |-> TRUE, error_msg |-> << >>, status |-> st] :
                st \in {101, 409}}

\* str::contains, for a pattern that is one word
contains_nothing(error_msg, pat) == FALSE

contains(error_msg, pat) ==
    \E i \in 1..Len(error_msg) : error_msg[i] = pat

\* lines 28-50: connect, and return early on an error or on status 409;
\* lines 57-59 and 63, 172: otherwise split the stream and spawn the tasks
run_client_session_connect(c, result) ==
    /\ session_pc[c] = "start"
    /\ attempts' = [attempts EXCEPT ![c] = @ + 1]
    /\ handshake' = [handshake EXCEPT ![c] = result]
    /\ IF ~result.ok
       THEN /\ session_result' =
                  [session_result EXCEPT ![c] =
                      IF \/ contains(result.error_msg, "409")
                         \/ contains(result.error_msg, "Conflict")
                      THEN "DuplicateClientId"
                      ELSE "ConnectionError"]
            /\ session_pc' = [session_pc EXCEPT ![c] = "returned"]
            /\ UNCHANGED <<read_task, write_task>>
       ELSE IF result.status = 409
       THEN /\ session_result' =
                  [session_result EXCEPT ![c] = "DuplicateClientId"]
            /\ session_pc' = [session_pc EXCEPT ![c] = "returned"]
            /\ UNCHANGED <<read_task, write_task>>
       ELSE /\ session_pc' = [session_pc EXCEPT ![c] = "running"]
            /\ read_task' = [read_task EXCEPT ![c] = "running"]
            /\ write_task' = [write_task EXCEPT ![c] = "running"]
            /\ UNCHANGED session_result
    /\ UNCHANGED exit_status
    /\ UNCHANGED <<server_vars, repository_vars, value_vars>>

\* lines 63-135 and 233-241: the read task ends, with connection_error
\* after a close frame or a read error; the write task is aborted
read_task_finish(c, connection_error) ==
    /\ session_pc[c] = "running"
    /\ read_task' = [read_task EXCEPT ![c] = "finished"]
    /\ write_task' = [write_task EXCEPT ![c] = "aborted"]
    /\ session_result' = [session_result EXCEPT ![c] =
                             IF connection_error THEN "ConnectionError"
                                                 ELSE "Ok"]
    /\ session_pc' = [session_pc EXCEPT ![c] = "returned"]
    /\ UNCHANGED <<handshake, attempts, exit_status>>
    /\ UNCHANGED <<server_vars, repository_vars, value_vars>>

\* lines 195-229 and 242-250: the write task ends, with write_error after a
\* failed send, without it when the input channel closes
write_task_finish(c, write_error) ==
    /\ session_pc[c] = "running"
    /\ write_task' = [write_task EXCEPT ![c] = "finished"]
    /\ read_task' = [read_task EXCEPT ![c] = "aborted"]
    /\ session_result' = [session_result EXCEPT ![c] =
                             IF write_error THEN "ConnectionError"
                                            ELSE "Ok"]
    /\ session_pc' = [session_pc EXCEPT ![c] = "returned"]
    /\ UNCHANGED <<handshake, attempts, exit_status>>
    /\ UNCHANGED <<server_vars, repository_vars, value_vars>>

\* The caller of run_client_session (client/runner.rs and the binary, which
\* are not among the sources): the process ends, with an error status when
\* the session returned an error; the session is not run again.
client_exit(c) ==
    /\ session_pc[c] = "returned"
    /\ session_pc' = [session_pc EXCEPT ![c] = "exited"]
    /\ exit_status' = [exit_status EXCEPT ![c] =
                          IF session_result[c] = "Ok" THEN 0 ELSE 1]
    /\ UNCHANGED <<handshake, session_result, read_task, write_task,
                   attempts>>
    /\ UNCHANGED <<server_vars, repository_vars, value_vars>>

SessionNext ==
    \/ \E c \in Clients, result \in Handshakes :
          run_client_session_connect(c, result)
    \/ \E c \in Clients, connection_error \in BOOLEAN :
          read_task_finish(c, connection_error)
    \/ \E c \in Clients, write_error \in BOOLEAN :
          write_task_finish(c, write_error)
    \/ \E c \in Clients : client_exit(c)

SessionSpec == Init /\ [][SessionNext]_vars


(***************************************************************************)
(* Properties of the admission and session code.                           *)
(***************************************************************************)
\* calls whose handle is in the registry: admitted and not yet cleaned up
Admitted(s) ==
    pc[s] \in {"registered", "room_connected", "joined", "active",
               "cleanup", "returned"}

\* everything a participant's connection was or will be handed, in order
Stream(s) == socket[s] \o rx[s]

\* C1: at any instant at most one admitted connection handle exists for an
\* identity: two calls admitted at the same time never carry the same
\* client_id, every admitted call owns the registry entry of its identity,
\* and every registry entry belongs to an admitted call.
C1_Uniqueness ==
    /\ \A s, t \in Sessions :
          (s # t /\ Admitted(s) /\ Admitted(t)) => client_id[s] # client_id[t]
    /\ \A s \in Sessions :
          Admitted(s) =>
             /\ client_id[s] \in DOMAIN connected_clients
             /\ connected_clients[client_id[s]].sender = s
    /\ \A id \in DOMAIN connected_clients :
          /\ Admitted(connected_clients[id].sender)
          /\ client_id[connected_clients[id].sender] = id

\* a second attempt for an identity was refused while its holder is admitted
C1_Witness ==
    \E s, t \in Sessions :
       /\ Admitted(s)
       /\ pc[t] = "conflict"
       /\ client_id[t] = client_id[s]

\* C2: an admission attempt for an identity that is in the registry ends in
\* the conflict answer (409), opens no session, and leaves the registry,
\* every channel and every socket as they were; a refused call stays refused.
C2_ConflictChangesNothing ==
    [][ /\ \A s \in Sessions, id \in Ids :
             (websocket_handler(s, id) /\ id \in DOMAIN connected_clients) =>
                /\ pc'[s] = "conflict"
                /\ connected_clients' = connected_clients
                /\ rx' = rx
                /\ rx_open' = rx_open
                /\ socket' = socket
        /\ \A s \in Sessions :
             pc[s] = "conflict" =>
                (pc'[s] = "conflict" /\ rx'[s] = << >> /\ socket'[s] = << >>)
      ]_vars

\* an attempt was refused while the holder is active and has events queued
C2_Witness ==
    \E s, t \in Sessions :
       /\ pc[s] = "active"
       /\ rx[s] # << >>
       /\ pc[t] = "conflict"
       /\ client_id[t] = client_id[s]

\* C4: the room-connected frame written to an admitted participant lists the
\* participant itself with the connect time of its registry entry.
C4_SnapshotInclusion ==
    \A s \in Sessions :
       pc[s] \in {"joined", "active"} =>
          /\ socket[s] # << >>
          /\ socket[s][1].msg.type = "room-connected"
          /\ [client_id |-> client_id[s],
              connected_at |-> connected_clients[client_id[s]].connected_at]
                \in socket[s][1].msg.participants

\* a participant got a room-connected frame that lists two others as well
C4_Witness ==
    \E s \in Sessions :
       /\ pc[s] = "active"
       /\ Cardinality(socket[s][1].msg.participants) = 3

\* C5: no chat message relayed by a call is ever in that call's own channel
\* or written to its own socket.
C5_NoSelfEcho ==
    \A s \in Sessions :
       \A k \in 1..Len(Stream(s)) :
          Stream(s)[k].msg.type = "chat" => Stream(s)[k].from # s

\* a chat relayed by one call reached another participant's socket while the
\* relaying call is still active; its payload names the recipient
C5_Witness ==
    \E s, t \in Sessions :
       /\ s # t
       /\ pc[s] = "active"
       /\ \E k \in 1..Len(socket[t]) :
             /\ socket[t][k].msg.type = "chat"
             /\ socket[t][k].from = s
             /\ socket[t][k].msg.client_id = client_id[t]

\* the calls registered under an identity other than that of call s
RegisteredOthers(s) ==
    {t \in Sessions :
        \E id \in DOMAIN connected_clients :
           id # client_id[s] /\ connected_clients[id].sender = t}

\* this step appended exactly one item carrying msg to the channel of call t
Enqueued(t, msg) ==
    /\ Len(rx'[t]) = Len(rx[t]) + 1
    /\ SubSeq(rx'[t], 1, Len(rx[t])) = rx[t]
    /\ rx'[t][Len(rx'[t])].msg = msg

\* C6 as stated: a relayed chat is enqueued once to every other identity in
\* the registry at the fan-out, and to no one else.
C6_Original ==
    [][ \A s \in Sessions, text \in Texts :
           recv_task_text(s, text) =>
              \A t \in Sessions :
                 IF t \in RegisteredOthers(s)
                 THEN Enqueued(t, ChatResponse(text))
                 ELSE rx'[t] = rx[t]
      ]_vars

\* C6 amended: a relayed chat is enqueued once to every other identity in
\* the registry at the fan-out whose receiver is alive, and to no one else
\* (the send to a registered identity whose receiver is gone fails).
C6_RelayToOpenOthers ==
    [][ \A s \in Sessions, text \in Texts :
           recv_task_text(s, text) =>
              \A t \in Sessions :
                 IF t \in RegisteredOthers(s) /\ rx_open[t]
                 THEN Enqueued(t, ChatResponse(text))
                 ELSE rx'[t] = rx[t]
      ]_vars

\* two participants hold the chat that a third one relayed
C6_Witness ==
    \E s, t, u \in Sessions :
       /\ s # t /\ s # u /\ t # u
       /\ \E k \in 1..Len(Stream(t)) :
             Stream(t)[k].msg.type = "chat" /\ Stream(t)[k].from = s
       /\ \E k \in 1..Len(Stream(u)) :
             Stream(u)[k].msg.type = "chat" /\ Stream(u)[k].from = s

\* C7: in a fan-out (participant-joined, chat, participant-left) with a
\* target whose receiver is gone, every target whose receiver is alive still
\* gets the message, and the sending call goes on as if every send had
\* succeeded.
BestEffort(targets, msg) ==
    (\E r \in targets : ~rx_open[r]) =>
       \A t \in targets : rx_open[t] => Enqueued(t, msg)

C7_BestEffortBroadcast ==
    [][ \A s \in Sessions :
          /\ handle_socket_joined(s) =>
                /\ BestEffort(RegisteredOthers(s),
                       [type |-> "participant-joined",
                        client_id |-> client_id[s],
                        connected_at |-> joined_at[s]])
                /\ pc'[s] = "active"
          /\ \A text \in Texts :
                recv_task_text(s, text) =>
                   /\ BestEffort(RegisteredOthers(s), ChatResponse(text))
                   /\ pc'[s] = "active"
          /\ handle_socket_cleanup(s) =>
                /\ BestEffort(RegisteredOthers(s),
                       [type |-> "participant-left",
                        client_id |-> client_id[s],
                        disconnected_at |-> now])
                /\ pc'[s] = "terminated"
      ]_vars

\* a participant holds a participant-left message, a participant-joined
\* message or a chat of a fan-out in which the send to another target failed
C7_Witness ==
    /\ \E t \in Sessions : \E k \in 1..Len(Stream(t)) :
          Stream(t)[k].msg.type = "participant-left" /\ Stream(t)[k].lost # {}
    /\ \E t \in Sessions : \E k \in 1..Len(Stream(t)) :
          Stream(t)[k].msg.type # "participant-left" /\ Stream(t)[k].lost # {}

\* C8: the socket of a connection only ever grows by the oldest message of
\* its channel, which leaves the channel in the same step, and a channel
\* only grows at its tail: what is written is what was enqueued, in the same
\* order, each message once.
C8_FifoPerRecipient ==
    [][ \A s \in Sessions :
          /\ (socket'[s] # socket[s] /\ socket[s] # << >> /\ socket'[s] # << >>) =>
                /\ rx[s] # << >>
                /\ socket'[s] = Append(socket[s], rx[s][1])
                /\ rx'[s] = SubSeq(rx[s], 2, Len(rx[s]))
          /\ (rx'[s] # rx[s] /\ rx'[s] # << >> /\ socket'[s] = socket[s]) =>
                /\ Len(rx'[s]) = Len(rx[s]) + 1
                /\ SubSeq(rx'[s], 1, Len(rx[s])) = rx[s]
      ]_vars

\* a connection was written two different messages after room-connected,
\* and a third one is queued
C8_Witness ==
    \E s \in Sessions :
       /\ Len(socket[s]) >= 3
       /\ socket[s][2] # socket[s][3]
       /\ rx[s] # << >>

\* C9 as stated: at the participant-joined fan-out of X, room-connected
\* has been written to X, and participant-joined with X's connect time is
\* enqueued once to every other registered identity and to no one else.
C9_Original ==
    [][ \A s \in Sessions :
           handle_socket_joined(s) =>
              /\ Len(socket[s]) = 1
              /\ socket[s][1].msg.type = "room-connected"
              /\ \A t \in Sessions :
                    IF t \in RegisteredOthers(s)
                    THEN Enqueued(t, [type |-> "participant-joined",
                                      client_id |-> client_id[s],
                                      connected_at |->
                                         connected_clients[client_id[s]].connected_at])
                    ELSE rx'[t] = rx[t]
      ]_vars

\* C9 amended: the same, for the other registered identities whose receiver
\* is alive; the send to one whose receiver is gone fails.
C9_JoinedAfterRoomConnected ==
    [][ \A s \in Sessions :
           handle_socket_joined(s) =>
              /\ Len(socket[s]) = 1
              /\ socket[s][1].msg.type = "room-connected"
              /\ \A t \in Sessions :
                    IF t \in RegisteredOthers(s) /\ rx_open[t]
                    THEN Enqueued(t, [type |-> "participant-joined",
                                      client_id |-> client_id[s],
                                      connected_at |->
                                         connected_clients[client_id[s]].connected_at])
                    ELSE rx'[t] = rx[t]
      ]_vars

\* two participants hold the participant-joined of a third, active one
C9_Witness ==
    \E s, t, u \in Sessions :
       /\ s # t /\ s # u /\ t # u
       /\ pc[s] = "active"
       /\ \E k \in 1..Len(Stream(t)) :
             Stream(t)[k].msg.type = "participant-joined" /\ Stream(t)[k].from = s
       /\ \E k \in 1..Len(Stream(u)) :
             Stream(u)[k].msg.type = "participant-joined" /\ Stream(u)[k].from = s

\* C10: whenever a session ends (handle_socket returns), its identity
\* leaves the registry, the connected count drops by one, and
\* participant-left with the time of the removal is enqueued once to every
\* identity still registered whose receiver is alive.
C10_LeftOnTermination ==
    [][ \A s \in Sessions :
           (/\ pc[s] \notin {"terminated", "returned"}
            /\ pc'[s] \in {"terminated", "returned"}) =>
              /\ client_id[s] \notin DOMAIN connected_clients'
              /\ Cardinality(DOMAIN connected_clients') =
                    Cardinality(DOMAIN connected_clients) - 1
              /\ \A t \in Sessions :
                    (/\ \E id \in DOMAIN connected_clients' :
                           connected_clients'[id].sender = t
                     /\ rx_open[t]) =>
                       Enqueued(t, [type |-> "participant-left",
                                    client_id |-> client_id[s],
                                    disconnected_at |-> now])
      ]_vars

\* a session has ended and its identity is still in the registry
C10_Witness ==
    \E s \in Sessions :
       /\ pc[s] = "returned"
       /\ client_id[s] \in DOMAIN connected_clients
       /\ connected_clients[client_id[s]].sender = s

(***************************************************************************)
(* Properties of the repository.                                           *)
(***************************************************************************)
\* no add_participant or remove_participant is in flight
Quiescent == \A k \in Tasks : task_pc[k] = "idle"

\* C3: at every quiescent point the connected count equals the length of
\* the participant list, and the identities of the registry are the
\* identities of the participant list.
C3_RegistryAggregateParity ==
    Quiescent =>
       /\ count_connected_clients = Len(get_participants)
       /\ get_all_connected_client_ids =
             {get_participants[i].id : i \in 1..Len(get_participants)}

\* no call is in flight and the two stores disagree
C3_Witness ==
    /\ Quiescent
    /\ ncalls > 0
    /\ \/ count_connected_clients # Len(get_participants)
       \/ get_all_connected_client_ids #
             {get_participants[i].id : i \in 1..Len(get_participants)}

(***************************************************************************)
(* Properties of the end of a session.                                     *)
(***************************************************************************)
\* the registry holds the channel of call s
RegisteredBy(s) ==
    \E id \in DOMAIN connected_clients : connected_clients[id].sender = s

\* C11: an admitted identity whose connection failed (a write failure, a
\* read failure or a close frame ended its session's work) is eventually
\* removed from the registry.
C11_EventuallyRemoved ==
    \A s \in Sessions :
       (pc[s] \in {"cleanup", "returned"} /\ RegisteredBy(s)) ~> ~RegisteredBy(s)

\* the session of an identity has ended, the identity is still registered,
\* and a later attempt to connect with it was rejected
C11_Witness ==
    \E s, t \in Sessions :
       /\ s < t
       /\ pc[s] = "returned"
       /\ RegisteredBy(s)
       /\ pc[t] = "conflict"
       /\ client_id[t] = client_id[s]

\* C12: the end of session X (a failed write or read, a close frame, the
\* cleanup) leaves every other session where it is and every other
\* identity's registry entry as it is; an entry leaves the registry only in
\* the cleanup of the session that owns it, and no entry is ever replaced.
C12_OnlyOwnEntryRemoved ==
    [][ /\ \A id \in DOMAIN connected_clients :
              IF id \in DOMAIN connected_clients'
              THEN connected_clients'[id] = connected_clients[id]
              ELSE /\ client_id[connected_clients[id].sender] = id
                   /\ pc[connected_clients[id].sender] = "cleanup"
                   /\ pc'[connected_clients[id].sender] = "terminated"
        /\ \A s \in Sessions :
              (\/ handle_socket_send_failed(s)
               \/ recv_task_break(s)
               \/ send_task_break(s)
               \/ handle_socket_cleanup(s)) =>
                 \A t \in Sessions \ {s} :
                    /\ pc'[t] = pc[t]
                    /\ rx_open'[t] = rx_open[t]
                    /\ socket'[t] = socket[t]
                    /\ RegisteredBy(t) => RegisteredBy(t)'
      ]_vars

\* a session has ended and been cleaned up while two other participants
\* stay registered and active
C12_Witness ==
    \E s, t, u \in Sessions :
       /\ t # u
       /\ pc[s] = "terminated"
       /\ pc[t] = "active" /\ RegisteredBy(t)
       /\ pc[u] = "active" /\ RegisteredBy(u)
       /\ \E k \in 1..Len(Stream(t)) :
             Stream(t)[k].msg.type = "participant-left" /\ Stream(t)[k].from = s

(***************************************************************************)
(* Properties of the relayed chat.                                         *)
(***************************************************************************)
\* the message this step appended to the channel of call t
LastEnqueued(t) == rx'[t][Len(rx'[t])].msg

\* C13 as stated: every Chat event enqueued for a frame received on X's
\* connection carries X's identity as client_id, and the content and
\* timestamp of a chat payload.
C13_Original ==
    [][ \A s \in Sessions, text \in Texts :
           recv_task_text(s, text) =>
              \A t \in Sessions :
                 rx'[t] # rx[t] =>
                    /\ LastEnqueued(t).type = "chat"
                    /\ LastEnqueued(t).client_id = client_id[s]
                    /\ text.type = "chat" =>
                          /\ LastEnqueued(t).content = text.content
                          /\ LastEnqueued(t).timestamp = text.timestamp
      ]_vars

\* C13 amended: every Chat event enqueued for a chat payload received on
\* X's connection carries the client_id, content and timestamp of the
\* payload; so it carries X's identity when the payload names X.
C13_PayloadPreserved ==
    [][ \A s \in Sessions, text \in ChatTexts :
           recv_task_text(s, text) =>
              \A t \in Sessions :
                 rx'[t] # rx[t] =>
                    /\ LastEnqueued(t) =
                          [type |-> "chat", client_id |-> text.client_id,
                           content |-> text.content,
                           timestamp |-> text.timestamp]
                    /\ text.client_id = client_id[s] =>
                          LastEnqueued(t).client_id = client_id[s]
      ]_vars

\* a participant holds a chat that names the identity of the connection it
\* was sent on
C13_Witness ==
    \E s, t \in Sessions :
       /\ s # t
       /\ pc[s] = "active"
       /\ \E k \in 1..Len(Stream(t)) :
             /\ Stream(t)[k].msg.type = "chat"
             /\ Stream(t)[k].from = s
             /\ Stream(t)[k].msg.client_id = client_id[s]

\* C14 as stated: a text frame that is not a chat envelope leaves the
\* session active and is relayed to every other registered identity as
\* Chat{"unknown", raw text, 0}.
C14_Original ==
    [][ \A s \in Sessions, text \in RawTexts :
           recv_task_text(s, text) =>
              /\ pc'[s] = "active"
              /\ rx_open'[s]
              /\ \A t \in Sessions :
                    IF t \in RegisteredOthers(s)
                    THEN Enqueued(t, [type |-> "chat", client_id |-> "unknown",
                                      content |-> text.raw, timestamp |-> 0])
                    ELSE rx'[t] = rx[t]
      ]_vars

\* C14 amended: a text frame that is not a chat envelope leaves the
\* session active and is relayed to every other registered identity whose
\* receiver is alive as Chat{"unknown", raw text, 0}.
C14_RawTextWrapped ==
    [][ \A s \in Sessions, text \in RawTexts :
           recv_task_text(s, text) =>
              /\ pc'[s] = "active"
              /\ rx_open'[s]
              /\ \A t \in Sessions :
                    IF t \in RegisteredOthers(s) /\ rx_open[t]
                    THEN Enqueued(t, [type |-> "chat", client_id |-> "unknown",
                                      content |-> text.raw, timestamp |-> 0])
                    ELSE rx'[t] = rx[t]
      ]_vars

\* two participants hold the wrapped raw text of a third, still active one
C14_Witness ==
    \E s, t, u \in Sessions :
       /\ s # t /\ s # u /\ t # u
       /\ pc[s] = "active"
       /\ \E k \in 1..Len(Stream(t)) :
             /\ Stream(t)[k].from = s
             /\ Stream(t)[k].msg.type = "chat"
             /\ Stream(t)[k].msg.client_id = "unknown"
             /\ Stream(t)[k].msg.content = "hello"
       /\ \E k \in 1..Len(Stream(u)) :
             /\ Stream(u)[k].from = s
             /\ Stream(u)[k].msg.type = "chat"
             /\ Stream(u)[k].msg.client_id = "unknown"

(***************************************************************************)
(* Properties of the value objects.                                        *)
(***************************************************************************)
\* C15: ClientId::new succeeds exactly for the strings of 1 to 100
\* characters; the empty string gives ClientIdEmpty, a string of more than
\* 100 characters gives ClientIdTooLong with max 100 and the number of
\* characters; two identities are equal exactly when their strings are.
C15_ClientIdValidation ==
    value_result.op = "ClientId::new" =>
       LET id == value_input[1]
           made == value_result.first
       IN  /\ made.ok <=> chars_count(id) \in 1..100
           /\ chars_count(id) = 0 =>
                 ~made.ok /\ made.error = [kind |-> "ClientIdEmpty"]
           /\ chars_count(id) > 100 =>
                 /\ ~made.ok
                 /\ made.error = [kind |-> "ClientIdTooLong", max |-> 100,
                                  actual |-> chars_count(id)]
           /\ (made.ok /\ value_result.second.ok) =>
                 (ClientId_eq(made, value_result.second)
                     <=> value_input[1] = value_input[2])

\* a string of at most 100 characters was refused as too long
C15_Witness ==
    /\ value_result.op = "ClientId::new"
    /\ chars_count(value_input[1]) \in 1..100
    /\ ~value_result.first.ok
    /\ value_result.first.error.kind = "ClientIdTooLong"

\* C16: for a frame whose content MessageContent::new rejects (empty, or
\* longer than the limit), no Chat event is enqueued to any recipient.
C16_RejectedContentNotRelayed ==
    [][ \A s \in Sessions, text \in Texts :
           recv_task_text(s, text) =>
              LET content == IF text.type = "chat" THEN text.content ELSE text.raw
              IN  ~MessageContent_new(AsString(content)).ok => rx' = rx
      ]_vars

\* a participant holds a chat whose content MessageContent::new rejects
C16_Witness ==
    \E t \in Sessions : \E k \in 1..Len(Stream(t)) :
       /\ Stream(t)[k].msg.type = "chat"
       /\ ~MessageContent_new(AsString(Stream(t)[k].msg.content)).ok

\* C17: no identity that ClientId::new rejects is in the registry (the
\* server's or the repository's) or in the participant list of the Room.
C17_OnlyValidIdentities ==
    /\ \A id \in DOMAIN connected_clients : ClientId_new(AsString(id)).ok
    /\ \A id \in DOMAIN repository_clients : ClientId_new(AsString(id)).ok
    /\ \A i \in 1..Len(room.participants) :
          ClientId_new(AsString(room.participants[i].id)).ok

\* a session is active under an identity that ClientId::new rejects
C17_Witness ==
    \E s \in Sessions :
       /\ pc[s] = "active"
       /\ client_id[s] \in DOMAIN connected_clients
       /\ connected_clients[client_id[s]].sender = s
       /\ ~ClientId_new(AsString(client_id[s])).ok

(***************************************************************************)
(* Properties of the repository's errors.                                  *)
(***************************************************************************)
\* C18: the participant list never holds more than the participant
\* capacity and the message history never more than the message capacity;
\* an add at the ceiling fails and leaves the participant list, the message
\* history and the registry as they were.
C18_CapacityKept ==
    [][ /\ Len(room'.participants) <= ParticipantCapacity
        /\ Len(room'.messages) <= MessageCapacity
        /\ \A k \in Tasks, id \in RepositoryIds :
              /\ (/\ add_participant_room(k, id)
                  /\ Len(room.participants) >= ParticipantCapacity) =>
                    /\ room' = room
                    /\ repository_clients' = repository_clients
                    /\ task_pc'[k] = "idle"
                    /\ task_result'[k] \notin {"none", "Ok"}
              /\ (/\ add_message(k, id, "Hello")
                  /\ Len(room.messages) >= MessageCapacity) =>
                    /\ room' = room
                    /\ task_result'[k] \notin {"none", "Ok"}
      ]_vars

\* the Room is full of participants and of messages, and the last call,
\* an add_participant, has been refused
C18_Witness ==
    /\ Len(room.participants) = ParticipantCapacity
    /\ Len(room.messages) = MessageCapacity
    /\ \E k \in Tasks :
          /\ task_pc[k] = "idle"
          /\ task_result[k] = "ParticipantNotFound"
          /\ task_arg[k].timestamp = ncalls

\* C19: an add_participant or add_message at the ceiling returns a
\* capacity-exceeded error to its caller, which no not-found error is.
C19_CapacityErrorReturned ==
    [][ \A k \in Tasks, id \in RepositoryIds :
           /\ (/\ add_participant_room(k, id)
               /\ Len(room.participants) >= ParticipantCapacity) =>
                 task_result'[k] \notin
                    {"Ok", "none", "ParticipantNotFound", "ClientInfoNotFound",
                     "RoomNotFound"}
           /\ (/\ add_message(k, id, "Hello")
               /\ Len(room.messages) >= MessageCapacity) =>
                 task_result'[k] \notin
                    {"Ok", "none", "ParticipantNotFound", "ClientInfoNotFound",
                     "RoomNotFound"}
      ]_vars

\* an add_message at the ceiling has returned RoomNotFound
C19_Witness ==
    \E k \in Tasks :
       /\ Len(room.messages) = MessageCapacity
       /\ task_pc[k] = "idle"
       /\ task_result[k] = "RoomNotFound"

\* C20: an add_participant that returns an error leaves the registry as
\* it was; when it returns Ok the identity is in the registry and in the
\* participant list of the Room, with the connect time of the call in both.
C20_RegistryAfterAggregate ==
    [][ \A k \in Tasks :
           /\ \A id \in RepositoryIds :
                 (add_participant_room(k, id) /\ task_result'[k] # "none") =>
                    repository_clients' = repository_clients
           /\ add_participant_clients(k) =>
                 /\ task_result'[k] = "Ok"
                 /\ task_arg[k].client_id \in DOMAIN repository_clients'
                 /\ repository_clients'[task_arg[k].client_id].connected_at =
                       task_arg[k].timestamp
                 /\ \E i \in 1..Len(room'.participants) :
                       room'.participants[i] =
                          [id |-> task_arg[k].client_id,
                           connected_at |-> task_arg[k].timestamp]
      ]_vars

\* an add_participant has returned Ok and its identity is not in the
\* participant list of the Room
C20_Witness ==
    \E k \in Tasks :
       /\ task_pc[k] = "idle"
       /\ task_result[k] = "Ok"
       /\ task_arg[k].timestamp > 0
       /\ task_arg[k].client_id \in DOMAIN repository_clients
       /\ repository_clients[task_arg[k].client_id].connected_at =
             task_arg[k].timestamp
       /\ \A i \in 1..Len(room.participants) :
             room.participants[i].id # task_arg[k].client_id

\* C21: remove_participant for an identity that is not in the registry
\* returns a not-found error and changes neither the registry nor the Room;
\* for an identity that is in the registry it goes on to the Room, returns
\* Ok, and at its return the identity is in neither.
C21_RemoveParticipant ==
    [][ \A k \in Tasks :
           /\ \A id \in RepositoryIds :
                 remove_participant_clients(k, id) =>
                    IF id \in DOMAIN repository_clients
                    THEN /\ task_pc'[k] = "remove_room"
                         /\ id \notin DOMAIN repository_clients'
                    ELSE /\ task_pc'[k] = "idle"
                         /\ task_result'[k] = "ClientInfoNotFound"
                         /\ repository_clients' = repository_clients
                         /\ room' = room
           /\ remove_participant_room(k) =>
                 /\ task_pc'[k] = "idle"
                 /\ task_result'[k] = "Ok"
                 /\ task_arg[k].client_id \notin DOMAIN repository_clients'
                 /\ \A i \in 1..Len(room'.participants) :
                       room'.participants[i].id # task_arg[k].client_id
      ]_vars

\* one remove_participant has returned Ok for an identity that had been
\* added, another one has returned the not-found error
C21_Witness ==
    \E j, k \in Tasks :
       /\ room.messages = << >>
       /\ task_pc[j] = "idle"
       /\ task_result[j] = "Ok"
       /\ task_arg[j].timestamp = 0
       /\ task_arg[j].client_id \in RepositoryIds
       /\ task_pc[k] = "idle"
       /\ task_result[k] = "ClientInfoNotFound"

(***************************************************************************)
(* Properties of the chat send at the message ceiling.                     *)
(***************************************************************************)
\* C22: once as many chats have been relayed as the message history has
\* places (each relayed chat is one record of the history), a further chat
\* send is refused: nothing is enqueued to any peer, and the sender's
\* session stays active and registered.
C22_SendRefusedAtCeiling ==
    [][ \A s \in Sessions, text \in Texts :
           (/\ recv_task_text(s, text) \/ recv_task_text_more(s, text)
            /\ nframes >= MessageCapacity) =>
              /\ \A t \in Sessions \ {s} : rx'[t] = rx[t]
              /\ pc'[s] = "active"
              /\ RegisteredBy(s)'
      ]_vars

\* a participant holds more chats than the message history has places
C22_Witness ==
    \E t \in Sessions :
       Cardinality({k \in 1..Len(Stream(t)) : Stream(t)[k].msg.type = "chat"})
          > MessageCapacity

(***************************************************************************)
(* Properties of the client session.                                       *)
(***************************************************************************)
\* the handshake was answered 409 Conflict, as an error of connect_async or
\* as the status of the response
Refused409(c) ==
    \/ /\ ~handshake[c].ok
       /\ handshake[c].error_msg = <<"HTTP error:", "409", "Conflict">>
    \/ /\ handshake[c].ok
       /\ handshake[c].status = 409

\* C23: a client refused with 409 ends its session with the
\* duplicate-identity error, never spawns its read and write tasks, connects
\* only once, and its process exits with an error status.
C23_RefusedClientEnds ==
    \A c \in Clients :
       Refused409(c) =>
          /\ session_pc[c] \in {"returned", "exited"}
          /\ session_result[c] = "DuplicateClientId"
          /\ read_task[c] = "unspawned"
          /\ write_task[c] = "unspawned"
          /\ attempts[c] = 1
          /\ session_pc[c] = "exited" => exit_status[c] = 1

\* one client has exited after the connect error, another after the
\* response status
C23_Witness ==
    \E c, d \in Clients :
       /\ ~handshake[c].ok /\ Refused409(c) /\ session_pc[c] = "exited"
       /\ handshake[d].ok /\ Refused409(d) /\ session_pc[d] = "exited"

(***************************************************************************)
(* Properties of a stalled connection.                                     *)
(***************************************************************************)
\* C24: a participant whose connection stalls cannot stall the others: the
\* disconnect cleanup of every other call, once its tasks have ended, still
\* completes.
C24_StalledPeerStallsNobody ==
    \A t \in Sessions \ {Stalled} :
       (pc[t] = "cleanup") ~> (pc[t] = "terminated")

\* the stalled call holds the registry over its pending write while another
\* call waits for the registry to clean up
C24_Witness ==
    \E t \in Sessions \ {Stalled} :
       /\ lock = Stalled
       /\ pc[Stalled] = "room_connected"
       /\ pc[t] = "cleanup"

\* without a stalled connection the cleanups complete
C24_AllCleanupsComplete ==
    \A t \in Sessions : (pc[t] = "cleanup") ~> (pc[t] = "terminated")

(***************************************************************************)
(* Properties of the order of the broadcast events.                        *)
(***************************************************************************)
\* the positions of the stream of call t that hold a broadcast event
Broadcasts(t) ==
    {i \in 1..Len(Stream(t)) : Stream(t)[i].msg.type # "room-connected"}

\* the stream of call t holds the event at position i only there
HeldOnce(t, i) ==
    \A n \in 1..Len(Stream(t)) : Stream(t)[n] = Stream(t)[i] => n = i

ChatsFrom(t, s) ==
    {j \in 1..Len(Stream(t)) :
        Stream(t)[j].msg.type = "chat" /\ Stream(t)[j].from = s}

\* the positions that hold the participant-joined broadcast by call s
JoinedFrom(t, s) ==
    {i \in 1..Len(Stream(t)) :
        Stream(t)[i].msg.type = "participant-joined" /\ Stream(t)[i].from = s}

\* C26: no peer observes a chat of X before "X joined".  When call X
\* broadcasts its participant-joined, no registered recipient holds a chat
\* relayed by X yet, and the ones whose receiver is alive are enqueued the
\* participant-joined; and a recipient admitted before X (it is registered
\* at that broadcast if X's chats reach it), or one that holds X's
\* participant-joined at all, holds it before every chat relayed by X.
C26_JoinedBeforeFirstMessage ==
    /\ [](\A s, t \in Sessions :
             \A j \in ChatsFrom(t, s) :
                (t < s \/ JoinedFrom(t, s) # {}) =>
                   \E i \in JoinedFrom(t, s) : i < j)
    /\ [][ \A s \in Sessions :
              handle_socket_joined(s) =>
                 \A t \in RegisteredOthers(s) :
                    /\ ChatsFrom(t, s) = {}
                    /\ rx_open[t] =>
                          /\ Len(rx'[t]) = Len(rx[t]) + 1
                          /\ LastEnqueued(t).type = "participant-joined"
                          /\ rx'[t][Len(rx'[t])].from = s
                          /\ ChatsFrom(t, s)' = {}
         ]_vars

\* a recipient admitted before X and one admitted after it both hold X's
\* participant-joined and then a chat relayed by X
C26_Witness ==
    \E s, t, u \in Sessions :
       /\ t < s /\ s < u
       /\ \E j \in ChatsFrom(t, s) : \E i \in JoinedFrom(t, s) : i < j
       /\ \E j \in ChatsFrom(u, s) : \E i \in JoinedFrom(u, s) : i < j

(***************************************************************************)
(* Properties of the room-connected snapshot.                              *)
(***************************************************************************)
\* C27: the participant list of a room-connected frame is the registry at
\* one instant: the registry does not change while a call holds the mutex
\* for its room-connected frame, and the frame written lists exactly the
\* (identity, connect time) pairs registered then.
C27_SnapshotIsOneInstant ==
    [][ \A s \in Sessions :
           /\ pc[s] = "room_connected" =>
                 connected_clients' = connected_clients
           /\ handle_socket_room_connected(s) =>
                 /\ Len(socket'[s]) = 1
                 /\ socket'[s][1].msg.type = "room-connected"
                 /\ socket'[s][1].msg.participants =
                       {[client_id |-> id,
                         connected_at |-> connected_clients[id].connected_at] :
                           id \in DOMAIN connected_clients}
      ]_vars

\* a call was written its room-connected frame while another call, listed
\* in it, waits to remove its entry and a third waits for its own snapshot
C27_Witness ==
    \E s, t, u \in Sessions :
       /\ pc[s] = "joined"
       /\ pc[t] = "cleanup"
       /\ pc[u] = "registered"
       /\ \E e \in socket[s][1].msg.participants : e.client_id = client_id[t]
       /\ \E e \in socket[s][1].msg.participants : e.client_id = client_id[u]

(***************************************************************************)
(* Properties of the two views of the repository.                          *)
(***************************************************************************)
\* the identity is in the participant list of the Room and not a key of
\* connected_clients
AggregateOnly(id) ==
    /\ \E i \in 1..Len(get_participants) : get_participants[i].id = id
    /\ id \notin get_all_connected_client_ids

\* task k is between the two steps of add_participant or of
\* remove_participant for the identity
InFlight(k, id) ==
    /\ task_pc[k] \in {"add_clients", "remove_room"}
    /\ task_arg[k].client_id = id

\* C28: add_participant and remove_participant are not atomic for the
\* readers of the two views: an identity is in the participant list and not
\* in the registry only while an add_participant or a remove_participant of
\* that identity is between its two steps (C28_Witness: such states are
\* reached, with both mutexes free for a reader).
C28_DisagreementWhileInFlight ==
    \A id \in RepositoryIds :
       AggregateOnly(id) => \E k \in Tasks : InFlight(k, id)

\* an add_participant of alice is between its two steps, neither mutex is
\* held, and a reader finds alice in get_participants and not in
\* get_all_connected_client_ids
C28_Witness ==
    \E k \in Tasks :
       /\ task_pc[k] = "add_clients"
       /\ clients_guard = 0
       /\ AggregateOnly(task_arg[k].client_id)

\* the same views while a remove_participant is between its two steps; the
\* remover holds the mutex of connected_clients
C28_RemoveWindow ==
    \E k \in Tasks :
       /\ task_pc[k] = "remove_room"
       /\ clients_guard = k
       /\ AggregateOnly(task_arg[k].client_id)

AppendOnly ==
    /\ Len(room'.messages) >= Len(room.messages)
    /\ SubSeq(room'.messages, 1, Len(room.messages)) = room.messages

\* C30: every relayed chat event appends exactly one record, with the
\* identity of the sender, to the message history of the Room, and the
\* history only grows by appending.
C30_RelayAppendsOneRecord ==
    [][ /\ AppendOnly
        /\ \A s \in Sessions, text \in Texts :
              (recv_task_text(s, text) /\ rx' # rx) =>
                 /\ Len(room'.messages) = Len(room.messages) + 1
                 /\ room'.messages[Len(room'.messages)].from = client_id[s]
      ]_vars

\* a participant holds a relayed chat and the message history is empty
C30_Witness ==
    /\ room.messages = << >>
    /\ \E s, t \in Sessions : ChatsFrom(t, s) # {}

\* the message history of the repository only grows by appending, one
\* record for each add_message that returns Ok
C30_HistoryAppendOnly ==
    [][ /\ AppendOnly
        /\ \A k \in Tasks, id \in RepositoryIds :
              add_message(k, id, "Hello") =>
                 IF task_result'[k] = "Ok"
                 THEN Len(room'.messages) = Len(room.messages) + 1
                 ELSE room' = room
      ]_vars

(***************************************************************************)
(* Properties of the Room aggregate.                                       *)
(***************************************************************************)
\* the identity is in the participant list of the Room
Listed(r, id) == \E i \in 1..Len(r.participants) : r.participants[i].id = id

C32_RoomConnectedFirst ==
    /\ [](\A s \in Sessions :
             /\ socket[s] # << >> =>
                   /\ socket[s][1].msg.type = "room-connected"
                   /\ \A k \in 2..Len(socket[s]) :
                         socket[s][k].msg.type # "room-connected"
             /\ pc[s] \in {"registered", "room_connected"} => socket[s] = << >>
             /\ pc[s] = "joined" => Len(socket[s]) = 1)
    /\ [][ \A s \in Sessions :
              (socket[s] # << >> /\ socket'[s] # << >>) =>
                 /\ Len(socket'[s]) >= Len(socket[s])
                 /\ SubSeq(socket'[s], 1, Len(socket[s])) = socket[s]
         ]_vars

\* an event is in the channel of a call that has not been written its
\* room-connected frame yet, and another call has been written an event
\* after its room-connected frame
C32_Witness ==
    \E s, t \in Sessions :
       /\ pc[s] = "registered"
       /\ rx[s] # << >>
       /\ pc[t] = "active"
       /\ Len(socket[t]) >= 2

(***************************************************************************)
(* Properties of the end of a session's relay.                             *)
(***************************************************************************)
\* the positions of the stream of call t that hold the participant-left
\* broadcast by call s
LeftFrom(t, s) ==
    {i \in 1..Len(Stream(t)) :
        Stream(t)[i].msg.type = "participant-left" /\ Stream(t)[i].from = s}

\* C33: no chat relayed by call X is enqueued to a recipient after the
\* participant-left of X was enqueued to it.
C33_NoChatAfterLeft ==
    \A s, t \in Sessions :
       \A i \in LeftFrom(t, s) : \A j \in ChatsFrom(t, s) : j < i

\* the cleanup of a call has broadcast participant-left to a live
\* recipient while its recv_task has a frame in hand
C33_Witness ==
    \E s, t \in Sessions :
       /\ pc[s] = "terminated_in_hand"
       /\ pc[t] = "active"
       /\ LeftFrom(t, s) # {}

(***************************************************************************)
(* Properties of the presence events a participant receives.               *)
(***************************************************************************)
\* the membership view a participant rebuilds from its events, in order:
\* the list of room-connected, plus each participant-joined, minus each
\* participant-left
RECURSIVE Replay(_, _)
Replay(view, events) ==
    IF events = << >>
    THEN view
    ELSE LET e == Head(events).msg
         IN  Replay(CASE e.type = "room-connected" ->
                            {p.client_id : p \in e.participants}
                      [] e.type = "participant-joined" ->
                            view \cup {e.client_id}
                      [] e.type = "participant-left" ->
                            view \ {e.client_id}
                      [] OTHER -> view,
                    Tail(events))

View(s) == Replay({}, Stream(s))

\* no admission, fan-out or cleanup is under way
ServerQuiescent ==
    /\ lock = 0
    /\ \A s \in Sessions :
          pc[s] \in {"unused", "conflict", "active", "terminated", "returned"}

\* C34: at every quiescent point the membership view of every active
\* participant equals the set of identities in the registry.
C34_ViewEqualsRegistry ==
    ServerQuiescent =>
       \A s \in Sessions :
          pc[s] = "active" => View(s) = DOMAIN connected_clients

\* at a quiescent point the view of an active participant lacks an
\* identity of the registry
C34_Witness ==
    /\ ServerQuiescent
    /\ \E s \in Sessions :
          /\ pc[s] = "active"
          /\ \E id \in DOMAIN connected_clients : id \notin View(s)

\* the same for the behaviours in which every room-connected write
\* succeeded
C34_ViewWithoutWriteFailure ==
    (ServerQuiescent /\ \A s \in Sessions : pc[s] # "returned") =>
       \A s \in Sessions :
          pc[s] = "active" => View(s) = DOMAIN connected_clients

\* the identities listed in the room-connected frame written to call s
Snapshot(s) == {p.client_id : p \in socket[s][1].msg.participants}

\* no participant-joined for an identity of the participant's own snapshot
NoRedundantJoined(s) ==
    \A k \in 1..Len(Stream(s)) :
       Stream(s)[k].msg.type = "participant-joined" =>
          Stream(s)[k].msg.client_id \notin Snapshot(s)

\* no participant-left for an identity that was neither in the snapshot nor
\* in an earlier participant-joined
NoDanglingLeft(s) ==
    \A k \in 1..Len(Stream(s)) :
       Stream(s)[k].msg.type = "participant-left" =>
          \/ Stream(s)[k].msg.client_id \in Snapshot(s)
          \/ \E i \in 1..(k - 1) :
                /\ Stream(s)[i].msg.type = "participant-joined"
                /\ Stream(s)[i].msg.client_id = Stream(s)[k].msg.client_id

\* C35: a participant receives no redundant and no dangling presence
\* event: among the events it is written after its room-connected frame,
\* participant-joined{X} comes only for an X its snapshot does not list, and
\* participant-left{X} only for an X of its snapshot or of an earlier
\* participant-joined.
C35_NoRedundantOrDangling ==
    \A s \in Sessions :
       socket[s] # << >> => NoRedundantJoined(s) /\ NoDanglingLeft(s)

\* one participant holds a participant-joined for an identity of its
\* snapshot, another a participant-left for an identity it never saw
C35_Witness ==
    \E s, t \in Sessions :
       /\ socket[s] # << >> /\ ~NoRedundantJoined(s)
       /\ socket[t] # << >> /\ ~NoDanglingLeft(t)

\* the first half of C35 alone
C35_NoRedundantJoinedOnly ==
    \A s \in Sessions : socket[s] # << >> => NoRedundantJoined(s)

\* the second half of C35 alone
C35_NoDanglingLeftOnly ==
    \A s \in Sessions : socket[s] # << >> => NoDanglingLeft(s)

\* the positions of the stream of call t that hold a participant-joined or
\* a participant-left of identity id
PresenceOf(t, id) ==
    {i \in 1..Len(Stream(t)) :
        /\ Stream(t)[i].msg.type \in {"participant-joined", "participant-left"}
        /\ Stream(t)[i].msg.client_id = id}

\* this step appended one item to the channel of call t
Appended(t) ==
    /\ Len(rx'[t]) = Len(rx[t]) + 1
    /\ SubSeq(rx'[t], 1, Len(rx[t])) = rx[t]

\* call s has broadcast its participant-joined and not its participant-left
Present(s) == pc[s] \in {"active", "cleanup"}

\* C36: each session broadcasts participant-joined at most once and
\* participant-left at most once, and participant-left only after its
\* participant-joined; for each identity the joined and left broadcasts
\* alternate, starting with joined.  A participant-joined is enqueued only
\* by the one step that takes the call from "joined" to "active", while no
\* other call of the identity is between its joined and its left; a
\* participant-left only by the one step that ends a call that was active;
\* and in what a recipient is handed, no call appears twice with the same
\* presence event, a call's left follows its joined, and two neighbouring
\* presence events of an identity are of different types.
C36_JoinedLeftAlternate ==
    /\ [](\A t, s \in Sessions :
             /\ Cardinality(JoinedFrom(t, s)) <= 1
             /\ Cardinality(LeftFrom(t, s)) <= 1
             /\ \A i \in JoinedFrom(t, s) : \A j \in LeftFrom(t, s) : i < j)
    /\ [](\A t \in Sessions, id \in Ids :
             \A i, j \in PresenceOf(t, id) :
                (i < j /\ \A k \in PresenceOf(t, id) : k <= i \/ k >= j)
                   => Stream(t)[i].msg.type # Stream(t)[j].msg.type)
    /\ [][ \A s \in Sessions :
              /\ (pc'[s] = "active" /\ pc[s] # "active") => pc[s] = "joined"
              /\ (pc'[s] = "cleanup" /\ pc[s] # "cleanup") => pc[s] = "active"
              /\ pc[s] \in {"active", "cleanup", "terminated"}
                    => pc'[s] \notin {"registered", "room_connected", "joined"}
              /\ pc[s] = "terminated" => pc'[s] = "terminated"
              /\ \A t \in Sessions :
                    (Appended(t) /\ rx'[t][Len(rx'[t])].from = s) =>
                       LET msg == LastEnqueued(t)
                       IN  /\ msg.type = "participant-joined" =>
                              /\ pc[s] = "joined" /\ pc'[s] = "active"
                              /\ msg.client_id = client_id[s]
                              /\ \A u \in Sessions :
                                    (u # s /\ Present(u))
                                       => client_id[u] # client_id[s]
                           /\ msg.type = "participant-left" =>
                              /\ pc[s] = "cleanup" /\ pc'[s] = "terminated"
                              /\ msg.client_id = client_id[s] ]_vars

\* a recipient holds joined, left and joined again of one identity, the
\* second joined broadcast by a later session of that identity
C36_Witness ==
    \E t, s, u \in Sessions :
       /\ s # u
       /\ \E i \in JoinedFrom(t, s), j \in LeftFrom(t, s), k \in JoinedFrom(t, u) :
             /\ i < j /\ j < k
             /\ Stream(t)[i].msg.client_id = Stream(t)[k].msg.client_id
             /\ Stream(t)[j].msg.client_id = Stream(t)[k].msg.client_id

\* the connect times a snapshot reports for identity id
ReportedFor(snapshot, id) ==
    {p.connected_at : p \in {q \in snapshot.msg.participants : q.client_id = id}}

\* C37: the connect time of X is fixed once at admission.  While the call
\* of X is registered its registry entry keeps its connected_at; a snapshot
\* reports for every identity it lists the connected_at of the registry
\* entry at that moment; the participant-joined of X carries the
\* connected_at of X's registry entry; and so, in every state, every
\* participant-joined broadcast by a registered call carries the value of
\* its registry entry, which is also what the call's own snapshot reports
\* for it.
C37_ConnectTimeFixed ==
    /\ [](\A s \in Sessions :
             (pc[s] \in {"joined", "active", "cleanup"}) =>
                LET entry == connected_clients[client_id[s]]
                IN  /\ entry.sender = s
                    /\ socket[s] # << >> =>
                          ReportedFor(socket[s][1], client_id[s])
                             = {entry.connected_at}
                    /\ \A t \in Sessions : \A i \in JoinedFrom(t, s) :
                          Stream(t)[i].msg.connected_at = entry.connected_at)
    /\ [][ /\ \A id \in DOMAIN connected_clients :
                 (id \in DOMAIN connected_clients'
                    /\ connected_clients'[id].sender
                          = connected_clients[id].sender)
                    => connected_clients'[id].connected_at
                          = connected_clients[id].connected_at
           /\ \A s \in Sessions :
                 (socket[s] = << >> /\ socket'[s] # << >>) =>
                    \A id \in Ids :
                       ReportedFor(socket'[s][1], id) =
                          IF id \in DOMAIN connected_clients
                          THEN {connected_clients[id].connected_at}
                          ELSE {}
           /\ \A s, t \in Sessions :
                 (Appended(t) /\ rx'[t][Len(rx'[t])].from = s
                    /\ LastEnqueued(t).type = "participant-joined") =>
                    LastEnqueued(t).connected_at
                       = connected_clients[client_id[s]].connected_at ]_vars

\* a participant-joined of X was handed to one peer, and the snapshot of a
\* peer admitted later lists X, while X is still registered
C37_Witness ==
    \E s, t, u \in Sessions :
       /\ s # t /\ s # u /\ t # u
       /\ pc[s] = "active"
       /\ JoinedFrom(t, s) # {}
       /\ JoinedFrom(u, s) = {}
       /\ socket[u] # << >>
       /\ ReportedFor(socket[u][1], client_id[s])
             = {connected_clients[client_id[s]].connected_at}
       /\ now > connected_clients[client_id[s]].connected_at + 1

\* this step admitted call t
AdmittedNow(t) == pc[t] = "unused" /\ pc'[t] = "registered"

\* C38: sessions of one identity are isolated in time.  An admission
\* registers a channel of its own, empty, when no other call of the
\* identity is registered or still holds a channel; an event is enqueued
\* only to the channel of a call that is registered at that fan-out, and a
\* call is written only what its own channel yields; so every
\* participant-left a registered call is handed was broadcast after the
\* call's admission.
C38_SessionsIsolated ==
    /\ [](\A t \in Sessions :
             RegisteredBy(t) =>
                \A i \in 1..Len(Stream(t)) :
                   Stream(t)[i].msg.type = "participant-left" =>
                      Stream(t)[i].msg.disconnected_at
                         > connected_clients[client_id[t]].connected_at)
    /\ [][ \A t \in Sessions :
              /\ AdmittedNow(t) =>
                    /\ rx[t] = << >> /\ socket[t] = << >>
                    /\ rx'[t] = << >> /\ socket'[t] = << >>
                    /\ connected_clients'[client_id'[t]].sender = t
                    /\ \A u \in Sessions :
                          (u # t /\ client_id[u] = client_id'[t]) =>
                             /\ ~RegisteredBy(u)
                             /\ ~rx_open[u]
                             /\ rx[u] = << >>
              /\ rx'[t] # rx[t] /\ Len(rx'[t]) >= Len(rx[t]) =>
                    /\ Appended(t)
                    /\ rx_open[t]
                    /\ \E id \in DOMAIN connected_clients' :
                          /\ connected_clients'[id].sender = t
                          /\ id = client_id[t]
              /\ (socket'[t] # socket[t] /\ socket[t] # << >>
                    /\ socket'[t] # << >>) =>
                    /\ rx[t] # << >>
                    /\ socket'[t] = Append(socket[t], rx[t][1])
                    /\ rx'[t] = Tail(rx[t]) ]_vars

\* a later session of an identity is active and holds an event of a peer
\* whose snapshot still lists the earlier session of that identity, the
\* one whose participant-left the peer was handed
C38_Witness ==
    \E s, t, u \in Sessions :
       /\ s # t /\ s # u /\ t # u
       /\ pc[s] = "terminated" /\ pc[t] = "active" /\ pc[u] = "active"
       /\ \E i \in LeftFrom(u, s) :
             Stream(u)[i].msg.client_id = client_id[t]
       /\ \E c \in ReportedFor(socket[u][1], client_id[t]) :
             c < connected_clients[client_id[t]].connected_at
       /\ \E i \in 2..Len(socket[t]) : socket[t][i].from = u

\* C39: after any sequence of repository operations, addParticipant for an
\* identity already present included, the participant list of the Room
\* holds each identity at most once.
C39_EachIdentityOnce ==
    \A i, j \in 1..Len(get_participants) :
       get_participants[i].id = get_participants[j].id => i = j

\* no operation is in flight, the identity was added twice and is listed
\* twice, and the registry counts it once
C39_Witness ==
    /\ Quiescent
    /\ \A k \in Tasks : task_result[k] \in {"Ok", "none"}
    /\ \E i, j \in 1..Len(get_participants) :
          i < j /\ get_participants[i].id = get_participants[j].id
    /\ count_connected_clients = 1
    /\ Len(get_participants) = 2

\* C40: concurrent repository operations never deadlock.  As long as a
\* called operation has not returned, some task that called one can take a
\* step, and every called operation returns in the end, whatever the
\* others do.
C40_NoDeadlock ==
    /\ []((\E k \in Tasks : task_pc[k] # "idle") =>
             \E k \in Tasks : ENABLED Proceed(k))
    /\ \A k \in Tasks : (task_pc[k] # "idle") ~> (task_pc[k] = "idle")

\* remove_participant holds connected_clients and waits for the room mutex,
\* which add_participant holds; add_participant takes connected_clients
\* next
C40_Witness ==
    \E j, k \in Tasks :
       /\ task_pc[j] = "remove_wait_room" /\ clients_guard = j
       /\ task_pc[k] = "add_in_room"
       /\ Len(room.participants) < ParticipantCapacity

=============================================================================
